---- MODULE Spec2Model ----
(***************************************************************************)
(* A model of the ASCII diagram corrector: the character grid, line        *)
(* detection with corner bridging, parallel grouping, box detection,       *)
(* structure classification, the four correction-producing stages, the     *)
(* shift corrector and the correction engine that sequences them.          *)
(*                                                                         *)
(* Grids are 0-indexed as in the source.  A grid object lives in a heap of *)
(* grid values, so that copying, aliasing and in-place mutation            *)
(* (set_cell / clear_cell) are visible to the properties.                  *)
(***************************************************************************)
EXTENDS Integers, Sequences, FiniteSets, TLC

(***************************************************************************)
(* Character sets (domain/character_constants.py).  The model's alphabet   *)
(* is ASCII; the Unicode members of each set behave as their ASCII         *)
(* counterparts of the same class.                                         *)
(***************************************************************************)
HORIZONTAL_CHARS == {"-", "=", "_"}

VERTICAL_CHARS == {"|", "!"}

\* (the grave accent, the fourth ASCII corner, is left out of the alphabet)
CORNER_CHARS == {"+", ".", "'"}

JUNCTION_CHARS == {"*"}

BRIDGE_CHARS == {"+", "."}

STRUCTURAL_CHARS == VERTICAL_CHARS \cup CORNER_CHARS \cup JUNCTION_CHARS

\* The character Grid.__init__ and clear_cell write.
Blank == " "

\* The answer of get_cell for a position outside the grid (None in the source).
NoCell == "None"

\* dominant_row / dominant_col of a line of the other direction (None).
NoCoord == -1

(***************************************************************************)
(* Grid (domain/grid.py)                                                   *)
(***************************************************************************)
\* Grid(width, height): a space-filled matrix.
NewGrid(w, h) ==
  [width |-> w, height |-> h,
   data |-> [r \in 0..(h - 1) |-> [c \in 0..(w - 1) |-> Blank]]]

\* A bounds check that forgets the lower bounds.
is_valid_position_upper(g, row, col) ==
  /\ row < g.height
  /\ col < g.width

is_valid_position(g, row, col) ==
  /\ 0 <= row /\ row < g.height
  /\ 0 <= col /\ col < g.width

\* The element a Python list of length n gives for index i: a negative index
\* counts from the end.
PyIndex(i, n) == IF i < 0 THEN i + n ELSE i

\* get_cell: the character at the position, or NoCell out of bounds.  The
\* Cell the source builds pairs this character with the queried position.
get_cell(g, row, col) ==
  IF is_valid_position(g, row, col)
  THEN g.data[PyIndex(row, g.height)][PyIndex(col, g.width)]
  ELSE NoCell

\* set_cell raises IndexError, before it writes, on an invalid position.
set_cell_raises(g, row, col) == ~is_valid_position(g, row, col)

\* set_cell: self._data[row][col] = char.value; the grid is left as it was
\* when the call raises.
set_cell(g, row, col, ch) ==
  IF set_cell_raises(g, row, col) THEN g
  ELSE [g EXCEPT !.data[PyIndex(row, g.height)][PyIndex(col, g.width)] = ch]

clear_cell(g, row, col) == set_cell(g, row, col, Blank)

\* A text is the sequence of its lines (text.split("\n")), a line the
\* sequence of its characters; the empty string is the one empty line.
EmptyText == <<<<>>>>

RECURSIVE MaxLen(_, _)
MaxLen(lines, i) ==
  IF i > Len(lines) THEN 0
  ELSE LET rest == MaxLen(lines, i + 1)
       IN IF Len(lines[i]) >= rest THEN Len(lines[i]) ELSE rest

\* from_string: short lines are padded with spaces to the longest line.
from_string(text) ==
  IF text = EmptyText THEN NewGrid(0, 0)
  ELSE [width |-> MaxLen(text, 1), height |-> Len(text),
        data |-> [r \in 0..(Len(text) - 1) |->
                    [c \in 0..(MaxLen(text, 1) - 1) |->
                       IF c + 1 <= Len(text[r + 1]) THEN text[r + 1][c + 1] ELSE Blank]]]

\* The line separator of to_string and from_string.
NewLine == "\n"

\* The characters str.rstrip removes, among those a cell of the model holds.
Whitespace == {Blank, "\t", NewLine}

\* str.rstrip on a line.
RECURSIVE rstrip(_)
rstrip(line) ==
  IF Len(line) > 0 /\ line[Len(line)] \in Whitespace
  THEN rstrip(SubSeq(line, 1, Len(line) - 1))
  ELSE line

\* "Remove trailing empty lines"
RECURSIVE pop_empty(_)
pop_empty(lines) ==
  IF Len(lines) > 0 /\ lines[Len(lines)] = <<>>
  THEN pop_empty(SubSeq(lines, 1, Len(lines) - 1))
  ELSE lines

\* to_string: every row right-stripped, trailing empty lines removed, joined.
to_string(g) ==
  LET lines == pop_empty([r \in 1..g.height |->
                            rstrip([c \in 1..g.width |-> g.data[r - 1][c - 1]])])
  IN IF Len(lines) = 0 THEN EmptyText ELSE lines

\* "\n".join(lines): the string to_string returns, as its characters.
RECURSIVE join(_)
join(lines) ==
  IF Len(lines) = 0 THEN <<>>
  ELSE IF Len(lines) = 1 THEN lines[1]
  ELSE lines[1] \o <<NewLine>> \o join(Tail(lines))

\* text.split("\n"): the lines from_string reads out of a string; cur is the
\* line being read.
RECURSIVE split(_, _)
split(chars, cur) ==
  IF Len(chars) = 0 THEN <<cur>>
  ELSE IF Head(chars) = NewLine THEN <<cur>> \o split(Tail(chars), <<>>)
  ELSE split(Tail(chars), Append(cur, Head(chars)))

\* A Cell value: character and position.
Cell(ch, row, col) == [value |-> ch, row |-> row, col |-> col]

(***************************************************************************)
(* Line (domain/line.py)                                                   *)
(***************************************************************************)
Line(cells, direction) == [cells |-> cells, direction |-> direction]

RECURSIVE MinOf(_, _, _), MaxOf(_, _, _)
MinOf(cells, i, axis) ==
  IF i = Len(cells) THEN cells[i][axis]
  ELSE LET rest == MinOf(cells, i + 1, axis)
       IN IF cells[i][axis] <= rest THEN cells[i][axis] ELSE rest

MaxOf(cells, i, axis) ==
  IF i = Len(cells) THEN cells[i][axis]
  ELSE LET rest == MaxOf(cells, i + 1, axis)
       IN IF cells[i][axis] >= rest THEN cells[i][axis] ELSE rest

\* start_position / end_position along the line's varying axis.
line_start(line) ==
  IF line.direction = "HORIZONTAL" THEN MinOf(line.cells, 1, "col")
  ELSE MinOf(line.cells, 1, "row")

line_end(line) ==
  IF line.direction = "HORIZONTAL" THEN MaxOf(line.cells, 1, "col")
  ELSE MaxOf(line.cells, 1, "row")

dominant_row(line) ==
  IF line.direction # "HORIZONTAL" \/ Len(line.cells) = 0 THEN NoCoord
  ELSE line.cells[1].row

dominant_col(line) ==
  IF line.direction # "VERTICAL" \/ Len(line.cells) = 0 THEN NoCoord
  ELSE line.cells[1].col

(***************************************************************************)
(* Line detector (detection/line_detector.py)                              *)
(***************************************************************************)
\* A peek that runs past blanks as well as bridge characters.
RECURSIVE PeekPastBlanks(_, _, _)
PeekPastBlanks(lane, n, peek) ==
  IF peek < n /\ lane[peek] \in BRIDGE_CHARS \cup {" "}
  THEN PeekPastBlanks(lane, n, peek + 1)
  ELSE peek

\* The peek loop: the first index at or after peek that holds no bridge
\* character (n when the lane ends first).
RECURSIVE PeekPastBridges(_, _, _)
PeekPastBridges(lane, n, peek) ==
  IF peek < n /\ lane[peek] \in BRIDGE_CHARS
  THEN PeekPastBridges(lane, n, peek + 1)
  ELSE peek

\* The scan of one row or column (lane): ScanOuter is the outer while loop
\* looking for the start of a run, ScanInner the inner loop collecting it.
\* The result is the sequence of runs, each the indices of its cells.
RECURSIVE ScanOuter(_, _, _, _, _, _), ScanInner(_, _, _, _, _, _, _)
ScanOuter(lane, n, lineChars, minLen, i, acc) ==
  IF i >= n THEN acc
  ELSE IF lane[i] \in lineChars
       THEN ScanInner(lane, n, lineChars, minLen, i + 1, <<i>>, acc)
  ELSE IF lane[i] \in BRIDGE_CHARS
       THEN LET peek == PeekPastBridges(lane, n, i + 1)
            IN IF peek < n /\ lane[peek] \in lineChars
               THEN ScanInner(lane, n, lineChars, minLen, i + 1, <<>>, acc)
               ELSE ScanOuter(lane, n, lineChars, minLen, i + 1, acc)
  ELSE ScanOuter(lane, n, lineChars, minLen, i + 1, acc)

ScanInner(lane, n, lineChars, minLen, i, cells, acc) ==
  IF i < n /\ lane[i] \in lineChars
  THEN ScanInner(lane, n, lineChars, minLen, i + 1, Append(cells, i), acc)
  ELSE IF i < n /\ lane[i] \in BRIDGE_CHARS
          /\ LET peek == PeekPastBridges(lane, n, i + 1)
             IN peek < n /\ lane[peek] \in lineChars
       THEN ScanInner(lane, n, lineChars, minLen,
                      PeekPastBridges(lane, n, i + 1), cells, acc)
  ELSE ScanOuter(lane, n, lineChars, minLen, i,
                 IF Len(cells) >= minLen THEN Append(acc, cells) ELSE acc)

RECURSIVE FlattenSeq(_)
FlattenSeq(ss) ==
  IF Len(ss) = 0 THEN <<>> ELSE Head(ss) \o FlattenSeq(Tail(ss))

\* _detect_horizontal_lines: rows top to bottom, runs left to right.
detect_horizontal_lines(g, minLen) ==
  FlattenSeq(
    [r1 \in 1..g.height |->
      LET row == r1 - 1
          runs == ScanOuter(g.data[row], g.width, HORIZONTAL_CHARS, minLen, 0, <<>>)
      IN [k \in 1..Len(runs) |->
            Line([j \in 1..Len(runs[k]) |->
                    Cell(g.data[row][runs[k][j]], row, runs[k][j])],
                 "HORIZONTAL")]])

\* _detect_vertical_lines: columns left to right, runs top to bottom.
detect_vertical_lines(g, minLen) ==
  FlattenSeq(
    [c1 \in 1..g.width |->
      LET col == c1 - 1
          lane == [r \in 0..(g.height - 1) |-> g.data[r][col]]
          runs == ScanOuter(lane, g.height, VERTICAL_CHARS, minLen, 0, <<>>)
      IN [k \in 1..Len(runs) |->
            Line([j \in 1..Len(runs[k]) |->
                    Cell(g.data[runs[k][j]][col], runs[k][j], col)],
                 "VERTICAL")]])

\* detect_lines (diagonal detection is off in the engine).
detect_lines(g, minLen) ==
  IF g.width = 0 \/ g.height = 0 THEN <<>>
  ELSE detect_horizontal_lines(g, minLen) \o detect_vertical_lines(g, minLen)

(***************************************************************************)
(* Parallel line finder (detection/parallel_line_finder.py)                *)
(* min_overlap_ratio is carried as a fraction [num, den].                  *)
(***************************************************************************)
\* get_position: dominant row of a horizontal line, dominant column of a
\* vertical one.
get_position(line, direction) ==
  IF direction = "HORIZONTAL" THEN dominant_row(line) ELSE dominant_col(line)

\* sorted(..., key=get_position) is stable: a line goes after every line
\* already placed whose position is not greater.
RECURSIVE InsertByPosition(_, _, _)
InsertByPosition(sorted, line, direction) ==
  IF Len(sorted) = 0 THEN <<line>>
  ELSE IF get_position(sorted[Len(sorted)], direction) <= get_position(line, direction)
       THEN Append(sorted, line)
       ELSE Append(InsertByPosition(SubSeq(sorted, 1, Len(sorted) - 1), line, direction),
                   sorted[Len(sorted)])

RECURSIVE SortByPosition(_, _, _)
SortByPosition(lines, direction, i) ==
  IF i = 0 THEN <<>>
  ELSE InsertByPosition(SortByPosition(lines, direction, i - 1), lines[i], direction)

Max2(a, b) == IF a >= b THEN a ELSE b

Min2(a, b) == IF a <= b THEN a ELSE b

\* A distance that is always zero.
AbsZero(x) == 0

Abs(x) == IF x < 0 THEN 0 - x ELSE x

\* An overlap test that every pair of lines passes.
overlap_always(line1, line2, ratio) == TRUE

has_sufficient_overlap(line1, line2, ratio) ==
  LET start1 == line_start(line1)
      end1 == line_end(line1)
      start2 == line_start(line2)
      end2 == line_end(line2)
      overlap == Max2(0, Min2(end1, end2) - Max2(start1, start2) + 1)
      min_len == Min2(end1 - start1 + 1, end2 - start2 + 1)
  IN IF min_len = 0 THEN FALSE
     ELSE overlap * ratio.den >= ratio.num * min_len

\* max(lines, key=length): the first of the longest lines.
RECURSIVE LongestLine(_, _)
LongestLine(lines, i) ==
  IF i = Len(lines) THEN lines[i]
  ELSE LET rest == LongestLine(lines, i + 1)
       IN IF Len(lines[i].cells) >= Len(rest.cells) THEN lines[i] ELSE rest

create_group(lines, direction) ==
  LET reference == LongestLine(lines, 1)
  IN [lines |-> lines, direction |-> direction, reference_line |-> reference,
      expected_position |-> get_position(reference, direction)]

\* The greedy loop over sorted_lines[1:]: current is current_group_lines.
RECURSIVE GroupLoop(_, _, _, _, _, _, _)
GroupLoop(sorted, i, current, groups, direction, tolerance, ratio) ==
  IF i > Len(sorted)
  THEN Append(groups, create_group(current, direction))
  ELSE LET last == current[Len(current)]
           line == sorted[i]
       IN IF /\ Abs(get_position(line, direction) - get_position(last, direction))
                  <= tolerance
             /\ has_sufficient_overlap(last, line, ratio)
          THEN GroupLoop(sorted, i + 1, Append(current, line), groups,
                         direction, tolerance, ratio)
          ELSE GroupLoop(sorted, i + 1, <<line>>,
                         Append(groups, create_group(current, direction)),
                         direction, tolerance, ratio)

group_lines_by_position(lines, direction, tolerance, ratio) ==
  LET positioned == SelectSeq(lines, LAMBDA ln : get_position(ln, direction) # NoCoord)
      sorted == SortByPosition(positioned, direction, Len(positioned))
  IN IF Len(lines) = 0 \/ Len(sorted) = 0 THEN <<>>
     ELSE GroupLoop(sorted, 2, <<sorted[1]>>, <<>>, direction, tolerance, ratio)

find_parallel_groups(lines, tolerance, ratio) ==
  IF Len(lines) = 0 THEN <<>>
  ELSE LET horizontal == SelectSeq(lines, LAMBDA ln : ln.direction = "HORIZONTAL")
           vertical == SelectSeq(lines, LAMBDA ln : ln.direction = "VERTICAL")
       IN group_lines_by_position(horizontal, "HORIZONTAL", tolerance, ratio)
          \o group_lines_by_position(vertical, "VERTICAL", tolerance, ratio)

(***************************************************************************)
(* Alignment calculator (correction/alignment_calculator.py)               *)
(***************************************************************************)
\* ShiftCorrection (correction/protocols.py); no caller passes a confidence
\* other than the default 1.0, carried as a fraction.
ShiftCorrection(line, row_offset, col_offset) ==
  [line |-> line, row_offset |-> row_offset, col_offset |-> col_offset,
   confidence |-> [num |-> 1, den |-> 1]]

\* The reference_line of a group that has none (None).
NoLine == [cells |-> <<>>, direction |-> "NONE"]

\* A line correction with the offset on the other axis.
calculate_line_correction_swapped(line, expected_position, direction) ==
  IF expected_position = NoCoord THEN <<>>
  ELSE LET current_position == get_position(line, direction)
           offset == expected_position - current_position
       IN IF current_position = NoCoord \/ offset = 0 THEN <<>>
          ELSE IF direction = "HORIZONTAL"
               THEN <<ShiftCorrection(line, 0, offset)>>
               ELSE <<ShiftCorrection(line, offset, 0)>>

\* _calculate_line_correction: <<>> for None, else the one correction.
calculate_line_correction(line, expected_position, direction) ==
  IF expected_position = NoCoord THEN <<>>
  ELSE LET current_position == get_position(line, direction)
           offset == expected_position - current_position
       IN IF current_position = NoCoord \/ offset = 0 THEN <<>>
          ELSE IF direction = "HORIZONTAL"
               THEN <<ShiftCorrection(line, offset, 0)>>
               ELSE <<ShiftCorrection(line, 0, offset)>>

\* The loop of calculate_alignment, given the reference and the expected
\* position it settled on.
align_lines(group, reference, expected_position) ==
  FlattenSeq(
    [i \in 1..Len(group.lines) |->
       IF group.lines[i] = reference THEN <<>>
       ELSE calculate_line_correction(group.lines[i], expected_position, group.direction)])

\* The expected position: the group's, or the reference's when it has none.
align_to(group, reference) ==
  align_lines(group, reference,
              IF group.expected_position = NoCoord
              THEN get_position(reference, group.direction)
              ELSE group.expected_position)

calculate_alignment(group) ==
  IF Len(group.lines) = 0 THEN <<>>
  ELSE align_to(group, IF group.reference_line = NoLine THEN group.lines[1]
                       ELSE group.reference_line)

(***************************************************************************)
(* Box detector (detection/box_detector.py)                                *)
(***************************************************************************)
\* All positions of the grid in row-major order, as <<row, col>> pairs.
RowMajor(g) ==
  [k \in 1..(g.height * g.width) |->
     <<(k - 1) \div g.width, (k - 1) % g.width>>]

find_corners(g) ==
  SelectSeq(RowMajor(g), LAMBDA p : get_cell(g, p[1], p[2]) \in CORNER_CHARS)

\* _trace_horizontal: the column of the next corner to the right, reached
\* through horizontal characters only (NoCoord for None).
RECURSIVE trace_horizontal(_, _, _)
trace_horizontal(g, row, col) ==
  IF col >= g.width THEN NoCoord
  ELSE IF get_cell(g, row, col) \in HORIZONTAL_CHARS
       THEN trace_horizontal(g, row, col + 1)
  ELSE IF get_cell(g, row, col) \in CORNER_CHARS THEN col
  ELSE NoCoord

RECURSIVE trace_vertical(_, _, _)
trace_vertical(g, row, col) ==
  IF row >= g.height THEN NoCoord
  ELSE IF get_cell(g, row, col) \in VERTICAL_CHARS
       THEN trace_vertical(g, row + 1, col)
  ELSE IF get_cell(g, row, col) \in CORNER_CHARS THEN row
  ELSE NoCoord

\* _build_horizontal_line: <<>> for None (fewer than 2 cells).
build_horizontal_line(g, row, left, right) ==
  LET span == [k \in 1..(right - left + 1) |-> left + k - 1]
      kept == SelectSeq(span, LAMBDA c :
                get_cell(g, row, c) \in (HORIZONTAL_CHARS \cup CORNER_CHARS))
  IN IF Len(kept) < 2 THEN <<>>
     ELSE <<Line([k \in 1..Len(kept) |-> Cell(get_cell(g, row, kept[k]), row, kept[k])],
                 "HORIZONTAL")>>

build_vertical_line(g, col, top, bottom) ==
  LET span == [k \in 1..(bottom - top + 1) |-> top + k - 1]
      kept == SelectSeq(span, LAMBDA r :
                get_cell(g, r, col) \in (VERTICAL_CHARS \cup CORNER_CHARS))
  IN IF Len(kept) < 2 THEN <<>>
     ELSE <<Line([k \in 1..Len(kept) |-> Cell(get_cell(g, kept[k], col), kept[k], col)],
                 "VERTICAL")>>

\* BoxDetector(min_size=2) as the engine constructs it.
BoxMinSize == 2

\* _try_form_box: <<>> for None, else the one BoxStructure.
try_form_box(g, row, col) ==
  LET right == trace_horizontal(g, row, col + 1)
      bottom == trace_vertical(g, row + 1, col)
      width == right - col + 1
      height == bottom - row + 1
  IN IF right = NoCoord \/ width < BoxMinSize THEN <<>>
     ELSE IF bottom = NoCoord \/ height < BoxMinSize THEN <<>>
     ELSE IF get_cell(g, bottom, right) \notin CORNER_CHARS THEN <<>>
     ELSE LET top_line == build_horizontal_line(g, row, col, right)
              bottom_line == build_horizontal_line(g, bottom, col, right)
              left_line == build_vertical_line(g, col, row, bottom)
              right_line == build_vertical_line(g, right, row, bottom)
          IN IF <<>> \in {top_line, bottom_line, left_line, right_line} THEN <<>>
             ELSE <<[top_line |-> top_line[1], bottom_line |-> bottom_line[1],
                     left_line |-> left_line[1], right_line |-> right_line[1],
                     height |-> height, width |-> width]>>

box_id(box) ==
  <<dominant_row(box.top_line), dominant_col(box.left_line), box.height, box.width>>

\* A loop that reports a box once for every corner of it that the scan visits.
RECURSIVE BoxLoopPerCorner(_, _, _, _)
BoxLoopPerCorner(g, corners, i, boxes) ==
  IF i > Len(corners) THEN boxes
  ELSE LET formed == SelectSeq(corners, LAMBDA p : try_form_box(g, p[1], p[2]) # <<>>)
           touching ==
             SelectSeq(formed, LAMBDA p :
               LET b == try_form_box(g, p[1], p[2])[1]
               IN /\ corners[i][1] \in {p[1], p[1] + b.height - 1}
                  /\ corners[i][2] \in {p[2], p[2] + b.width - 1})
       IN BoxLoopPerCorner(g, corners, i + 1,
            boxes \o [k \in 1..Len(touching) |->
                        try_form_box(g, touching[k][1], touching[k][2])[1]])

\* The loop of detect_boxes over the corners, with used_boxes as the set of
\* the ids of the boxes kept so far.
RECURSIVE BoxLoop(_, _, _, _)
BoxLoop(g, corners, i, boxes) ==
  IF i > Len(corners) THEN boxes
  ELSE LET box == try_form_box(g, corners[i][1], corners[i][2])
           used_boxes == {box_id(boxes[k]) : k \in 1..Len(boxes)}
       IN IF box # <<>> /\ box_id(box[1]) \notin used_boxes
          THEN BoxLoop(g, corners, i + 1, Append(boxes, box[1]))
          ELSE BoxLoop(g, corners, i + 1, boxes)

detect_boxes(g) ==
  IF g.width = 0 \/ g.height = 0 THEN <<>>
  ELSE BoxLoop(g, find_corners(g), 1, <<>>)

(***************************************************************************)
(* Box alignment calculator (correction/box_alignment_calculator.py)       *)
(***************************************************************************)
\* _align_box_edges taking the width and the height of a box for the distance
\* between its edges.
align_box_edges_to_width(box) ==
  LET ref_col == dominant_col(box.left_line)
      ref_row == dominant_row(box.top_line)
      target_right_col == ref_col + box.width
      right_col == dominant_col(box.right_line)
      target_bottom_row == ref_row + box.height
      bottom_row == dominant_row(box.bottom_line)
  IN IF ref_col = NoCoord \/ ref_row = NoCoord THEN <<>>
     ELSE (IF right_col # NoCoord /\ right_col # target_right_col
           THEN <<ShiftCorrection(box.right_line, 0, target_right_col - right_col)>>
           ELSE <<>>)
          \o
          (IF bottom_row # NoCoord /\ bottom_row # target_bottom_row
           THEN <<ShiftCorrection(box.bottom_line, target_bottom_row - bottom_row, 0)>>
           ELSE <<>>)

align_box_edges(box) ==
  LET ref_col == dominant_col(box.left_line)
      ref_row == dominant_row(box.top_line)
      target_right_col == ref_col + box.width - 1
      right_col == dominant_col(box.right_line)
      target_bottom_row == ref_row + box.height - 1
      bottom_row == dominant_row(box.bottom_line)
  IN IF ref_col = NoCoord \/ ref_row = NoCoord THEN <<>>
     ELSE (IF right_col # NoCoord /\ right_col # target_right_col
           THEN <<ShiftCorrection(box.right_line, 0, target_right_col - right_col)>>
           ELSE <<>>)
          \o
          (IF bottom_row # NoCoord /\ bottom_row # target_bottom_row
           THEN <<ShiftCorrection(box.bottom_line, target_bottom_row - bottom_row, 0)>>
           ELSE <<>>)

calculate_corrections(boxes) ==
  FlattenSeq([i \in 1..Len(boxes) |-> align_box_edges(boxes[i])])

(***************************************************************************)
(* Structure classifier (detection/structure_classifier.py)                *)
(***************************************************************************)
\* The count of horizontal characters right of (row, col), looking at most
\* three columns ahead and stopping at the first other character.
RECURSIVE horizontal_count(_, _, _, _)
horizontal_count(g, row, check_col, limit) ==
  IF check_col < limit /\ get_cell(g, row, check_col) \in HORIZONTAL_CHARS
  THEN 1 + horizontal_count(g, row, check_col + 1, limit)
  ELSE 0

is_tree_branch(g, row, col) ==
  /\ get_cell(g, row, col) = "+"
  /\ horizontal_count(g, row, col + 1, Min2(col + 4, g.width)) >= 2
  /\ row > 0
  /\ get_cell(g, row - 1, col) \in (VERTICAL_CHARS \cup {"|", "+"})

\* StructureClassifier(tree_branch_threshold=2) as the engine constructs it.
TreeBranchThreshold == 2

has_tree_patterns(g) ==
  Cardinality({p \in (0..(g.height - 1)) \X (0..(g.width - 3)) :
                 is_tree_branch(g, p[1], p[2])}) >= TreeBranchThreshold

\* "Boxes typically have 4+ corners".
BoxCornerThreshold == 4

has_box_patterns(g) ==
  Cardinality({p \in (0..(g.height - 1)) \X (0..(g.width - 1)) :
                 get_cell(g, p[1], p[2]) \in {"+", ".", "'"}}) >= BoxCornerThreshold

classify(g) ==
  IF has_tree_patterns(g) THEN "TREE"
  ELSE IF has_box_patterns(g) THEN "BOX"
  ELSE "UNKNOWN"

(***************************************************************************)
(* Stray character finder (correction/stray_character_finder.py)           *)
(***************************************************************************)
row_has_text(g, row) ==
  \E c \in 0..(g.width - 1) :
     get_cell(g, row, c) # Blank /\ get_cell(g, row, c) \notin VERTICAL_CHARS

col_has_text(g, col) ==
  \E r \in 0..(g.height - 1) :
     get_cell(g, r, col) # Blank /\ get_cell(g, r, col) \notin HORIZONTAL_CHARS

has_adjacent_structural(g, row, col) ==
  \E adj_row \in {row - 1, row + 1} :
     get_cell(g, adj_row, col) \in (VERTICAL_CHARS \cup CORNER_CHARS)

\* An edge test that calls every position the right edge.
always_edge(g, row, col) == TRUE

is_right_edge(g, row, col) ==
  \A c \in (col + 1)..(g.width - 1) : get_cell(g, row, c) = Blank

\* The loop over vertical_lines: best is the index of best_line (0 for None)
\* and dist its distance; a later line wins only when strictly nearer.
RECURSIVE BestVerticalLine(_, _, _, _, _, _, _, _)
BestVerticalLine(g, row, col, is_edge, lines, tolerance, i, best) ==
  IF i > Len(lines) THEN best
  ELSE LET line_col == dominant_col(lines[i])
           distance == Abs(col - line_col)
           in_range == /\ row >= line_start(lines[i]) - tolerance
                       /\ row <= line_end(lines[i]) + tolerance
           skip == \/ line_col = NoCoord
                   \/ distance = 0
                   \/ distance > tolerance
                   \/ (~in_range /\ ~(is_edge /\ has_adjacent_structural(g, row, line_col)))
       IN IF ~skip /\ (best.index = 0 \/ distance < best.dist)
          THEN BestVerticalLine(g, row, col, is_edge, lines, tolerance, i + 1,
                                [index |-> i, dist |-> distance])
          ELSE BestVerticalLine(g, row, col, is_edge, lines, tolerance, i + 1, best)

\* A vertical correction with the offset taken the wrong way round.
find_vertical_correction_flipped(g, row, col, vertical_lines, tolerance) ==
  LET is_edge == is_right_edge(g, row, col)
      best == BestVerticalLine(g, row, col, is_edge, vertical_lines, tolerance, 1,
                               [index |-> 0, dist |-> 0])
      target_col == dominant_col(vertical_lines[best.index])
  IN IF row_has_text(g, row) /\ ~is_edge THEN <<>>
     ELSE IF best.index = 0 THEN <<>>
     ELSE IF target_col = NoCoord THEN <<>>
     ELSE IF get_cell(g, row, target_col) # Blank THEN <<>>
     ELSE <<ShiftCorrection(Line(<<Cell(get_cell(g, row, col), row, col)>>, "VERTICAL"),
                            0, col - target_col)>>

\* A vertical correction that does not look at what the target cell holds.
find_vertical_correction_unchecked(g, row, col, vertical_lines, tolerance) ==
  LET is_edge == is_right_edge(g, row, col)
      best == BestVerticalLine(g, row, col, is_edge, vertical_lines, tolerance, 1,
                               [index |-> 0, dist |-> 0])
      target_col == dominant_col(vertical_lines[best.index])
  IN IF row_has_text(g, row) /\ ~is_edge THEN <<>>
     ELSE IF best.index = 0 THEN <<>>
     ELSE IF target_col = NoCoord THEN <<>>
     ELSE <<ShiftCorrection(Line(<<Cell(get_cell(g, row, col), row, col)>>, "VERTICAL"),
                            0, target_col - col)>>

\* _find_vertical_correction: <<>> for None, else the one correction.
find_vertical_correction(g, row, col, vertical_lines, tolerance) ==
  LET is_edge == is_right_edge(g, row, col)
      best == BestVerticalLine(g, row, col, is_edge, vertical_lines, tolerance, 1,
                               [index |-> 0, dist |-> 0])
      target_col == dominant_col(vertical_lines[best.index])
  IN IF row_has_text(g, row) /\ ~is_edge THEN <<>>
     ELSE IF best.index = 0 THEN <<>>
     ELSE IF target_col = NoCoord THEN <<>>
     ELSE IF get_cell(g, row, target_col) # Blank THEN <<>>
     ELSE <<ShiftCorrection(Line(<<Cell(get_cell(g, row, col), row, col)>>, "VERTICAL"),
                            0, target_col - col)>>

RECURSIVE BestHorizontalLine(_, _, _, _, _, _)
BestHorizontalLine(row, col, lines, tolerance, i, best) ==
  IF i > Len(lines) THEN best
  ELSE LET line_row == dominant_row(lines[i])
           distance == Abs(row - line_row)
           skip == \/ line_row = NoCoord
                   \/ distance = 0
                   \/ distance > tolerance
                   \/ col < line_start(lines[i]) - tolerance
                   \/ col > line_end(lines[i]) + tolerance
       IN IF ~skip /\ (best.index = 0 \/ distance < best.dist)
          THEN BestHorizontalLine(row, col, lines, tolerance, i + 1,
                                  [index |-> i, dist |-> distance])
          ELSE BestHorizontalLine(row, col, lines, tolerance, i + 1, best)

find_horizontal_correction(g, row, col, horizontal_lines, tolerance) ==
  LET best == BestHorizontalLine(row, col, horizontal_lines, tolerance, 1,
                                 [index |-> 0, dist |-> 0])
      target_row == dominant_row(horizontal_lines[best.index])
  IN IF col_has_text(g, col) THEN <<>>
     ELSE IF best.index = 0 THEN <<>>
     ELSE IF target_row = NoCoord THEN <<>>
     ELSE IF get_cell(g, target_row, col) # Blank THEN <<>>
     ELSE <<ShiftCorrection(Line(<<Cell(get_cell(g, row, col), row, col)>>, "HORIZONTAL"),
                            target_row - row, 0)>>

find_stray_corrections(g, detected_lines, tolerance) ==
  LET covered == UNION {{<<detected_lines[i].cells[j].row, detected_lines[i].cells[j].col>> :
                           j \in 1..Len(detected_lines[i].cells)} :
                        i \in 1..Len(detected_lines)}
      vertical_lines == SelectSeq(detected_lines, LAMBDA ln : ln.direction = "VERTICAL")
      horizontal_lines == SelectSeq(detected_lines, LAMBDA ln : ln.direction = "HORIZONTAL")
      order == RowMajor(g)
  IN FlattenSeq(
       [k \in 1..Len(order) |->
          LET row == order[k][1]
              col == order[k][2]
          IN IF <<row, col>> \in covered THEN <<>>
             ELSE IF get_cell(g, row, col) \in VERTICAL_CHARS
                  THEN find_vertical_correction(g, row, col, vertical_lines, tolerance)
             ELSE IF get_cell(g, row, col) \in HORIZONTAL_CHARS
                  THEN find_horizontal_correction(g, row, col, horizontal_lines, tolerance)
             ELSE <<>>])

(***************************************************************************)
(* Row shift corrector (correction/row_shift_corrector.py)                 *)
(***************************************************************************)
\* RowShiftCorrector(min_consensus=2), the default the engine uses.
MinConsensus == 2

\* The characters the histogram counts.
RowShiftStructural == VERTICAL_CHARS \cup CORNER_CHARS

\* structural_positions: the (row, col) pairs holding a counted character.
structural_positions(g) ==
  {p \in (0..(g.height - 1)) \X (0..(g.width - 1)) :
     get_cell(g, p[1], p[2]) \in RowShiftStructural}

\* col_counts.get(col, 0)
col_count(positions, col) == Cardinality({p \in positions : p[2] = col})

\* The candidates visited rightward before leftward: col+1, col-1, col+2, ...
CandidateColumnsRightFirst(col, tolerance) ==
  [k \in 1..(2 * tolerance) |->
     IF k % 2 = 1 THEN col + ((k + 1) \div 2) ELSE col - (k \div 2)]

\* The candidates of a search one column wider than the tolerance.
CandidateColumnsWide(col, tolerance) ==
  [k \in 1..(2 * (tolerance + 1)) |->
     IF k % 2 = 1 THEN col - ((k + 1) \div 2) ELSE col + (k \div 2)]

\* The candidates in the order the two nested loops visit them:
\* col-1, col+1, col-2, col+2, ...
CandidateColumns(col, tolerance) ==
  [k \in 1..(2 * tolerance) |->
     IF k % 2 = 1 THEN col - ((k + 1) \div 2) ELSE col + (k \div 2)]

RECURSIVE BestOffsetLoop(_, _, _, _, _, _, _, _)
BestOffsetLoop(row, col, positions, grid_height, candidates, i, best_count, best_offset) ==
  IF i > Len(candidates) THEN best_offset
  ELSE LET candidate == candidates[i]
           candidate_count == col_count(positions, candidate)
           has_adjacent ==
             \/ (row > 0 /\ <<row - 1, candidate>> \in positions)
             \/ (row < grid_height - 1 /\ <<row + 1, candidate>> \in positions)
       IN IF /\ candidate_count > best_count
             /\ candidate_count >= MinConsensus
             /\ has_adjacent
          THEN BestOffsetLoop(row, col, positions, grid_height, candidates, i + 1,
                              candidate_count, col - candidate)
          ELSE BestOffsetLoop(row, col, positions, grid_height, candidates, i + 1,
                              best_count, best_offset)

best_offset(row, col, positions, grid_height, tolerance) ==
  BestOffsetLoop(row, col, positions, grid_height, CandidateColumns(col, tolerance), 1,
                 col_count(positions, col), 0)

\* A row check that moves the structural characters of the row only.
check_row_structural_only(g, row, positions, tolerance) ==
  LET columns == [k \in 1..g.width |-> k - 1]
      row_structural == SelectSeq(columns, LAMBDA c : <<row, c>> \in positions)
      offsets == [k \in 1..Len(row_structural) |->
                    best_offset(row, row_structural[k], positions, g.height, tolerance)]
      d == offsets[1]
  IN IF Len(row_structural) = 0 THEN <<>>
     ELSE IF Cardinality({offsets[k] : k \in 1..Len(offsets)}) # 1 \/ d = 0 THEN <<>>
     ELSE <<ShiftCorrection(
              Line([k \in 1..Len(row_structural) |->
                      Cell(get_cell(g, row, row_structural[k]), row, row_structural[k])],
                   "HORIZONTAL"),
              0, 0 - d)>>

\* A row check that asks the row's first structural character only.
check_row_first(g, row, positions, tolerance) ==
  LET columns == [k \in 1..g.width |-> k - 1]
      row_structural == SelectSeq(columns, LAMBDA c : <<row, c>> \in positions)
      d == best_offset(row, row_structural[1], positions, g.height, tolerance)
      row_cols == SelectSeq(columns, LAMBDA c : get_cell(g, row, c) # Blank)
  IN IF Len(row_structural) = 0 THEN <<>>
     ELSE IF d = 0 THEN <<>>
     ELSE IF \E k \in 1..Len(row_cols) :
                row_cols[k] - d < 0 \/ row_cols[k] - d >= g.width
          THEN <<>>
     ELSE <<ShiftCorrection(
              Line([k \in 1..Len(row_cols) |-> Cell(get_cell(g, row, row_cols[k]), row, row_cols[k])],
                   "HORIZONTAL"),
              0, 0 - d)>>

\* _check_row: <<>> for None, else the one correction for the row.
check_row(g, row, positions, tolerance) ==
  LET columns == [k \in 1..g.width |-> k - 1]
      row_structural == SelectSeq(columns, LAMBDA c : <<row, c>> \in positions)
      offsets == [k \in 1..Len(row_structural) |->
                    best_offset(row, row_structural[k], positions, g.height, tolerance)]
      d == offsets[1]
      row_cols == SelectSeq(columns, LAMBDA c : get_cell(g, row, c) # Blank)
  IN IF Len(row_structural) = 0 THEN <<>>
     ELSE IF Cardinality({offsets[k] : k \in 1..Len(offsets)}) # 1 \/ d = 0 THEN <<>>
     ELSE IF Len(row_cols) = 0 THEN <<>>
     ELSE IF \E k \in 1..Len(row_cols) :
                row_cols[k] - d < 0 \/ row_cols[k] - d >= g.width
          THEN <<>>
     ELSE <<ShiftCorrection(
              Line([k \in 1..Len(row_cols) |-> Cell(get_cell(g, row, row_cols[k]), row, row_cols[k])],
                   "HORIZONTAL"),
              0, 0 - d)>>

find_row_shift_corrections(g, tolerance) ==
  IF g.width = 0 \/ g.height = 0 THEN <<>>
  ELSE IF structural_positions(g) = {} THEN <<>>
  ELSE FlattenSeq([r1 \in 1..g.height |->
                     check_row(g, r1 - 1, structural_positions(g), tolerance)])

(***************************************************************************)
(* Shift corrector (correction/shift_corrector.py).  Grids are objects:   *)
(* h is the heap (a sequence of grid values), ref an index into it.        *)
(***************************************************************************)
\* A copy that is no copy: the same object handed back.
grid_alias(h, ref) == [heap |-> h, ref |-> ref]

\* Grid.copy: a new object with the same content.
grid_copy(h, ref) == [heap |-> Append(h, h[ref]), ref |-> Len(h) + 1]

\* "Clear original positions first": clear_cell on every cell, in order.
RECURSIVE ClearCells(_, _, _, _)
ClearCells(h, ref, cells, i) ==
  IF i > Len(cells) THEN h
  ELSE ClearCells([h EXCEPT ![ref] = clear_cell(@, cells[i].row, cells[i].col)],
                  ref, cells, i + 1)

\* "Place characters at new positions": set_cell on every translated cell.
RECURSIVE PlaceCells(_, _, _, _)
PlaceCells(h, ref, correction, i) ==
  IF i > Len(correction.line.cells) THEN h
  ELSE LET cell == correction.line.cells[i]
       IN PlaceCells([h EXCEPT ![ref] = set_cell(@, cell.row + correction.row_offset,
                                                 cell.col + correction.col_offset,
                                                 cell.value)],
                     ref, correction, i + 1)

\* A validation that also rejects a move into the first column or row.
out_of_bounds_inner(correction, g) ==
  \E i \in 1..Len(correction.line.cells) :
     \/ correction.line.cells[i].row + correction.row_offset <= 0
     \/ correction.line.cells[i].col + correction.col_offset <= 0
     \/ correction.line.cells[i].row + correction.row_offset >= g.height
     \/ correction.line.cells[i].col + correction.col_offset >= g.width

\* The validation loop: some translated position is out of bounds.
out_of_bounds(correction, g) ==
  \E i \in 1..Len(correction.line.cells) :
     ~is_valid_position(g, correction.line.cells[i].row + correction.row_offset,
                        correction.line.cells[i].col + correction.col_offset)

\* The reference returned when the call raises instead.
NoRef == 0

\* A shift that validates while it writes: the cells are cleared and the
\* translated cells written until one falls outside, and only then it raises.
apply_correction_eager(h, correction, ref) ==
  LET c == grid_copy(h, ref)
      moved == PlaceCells(ClearCells(c.heap, c.ref, correction.line.cells, 1),
                          c.ref, correction, 1)
  IN IF correction.row_offset = 0 /\ correction.col_offset = 0
     THEN [heap |-> c.heap, ref |-> c.ref, raised |-> "none"]
     ELSE IF out_of_bounds(correction, c.heap[c.ref])
     THEN [heap |-> moved, ref |-> NoRef, raised |-> "ValueError"]
     ELSE [heap |-> moved, ref |-> c.ref, raised |-> "none"]

\* A shift that moves the cells one at a time, each cleared and written
\* before the next is looked at.
RECURSIVE MoveCells(_, _, _, _)
MoveCells(h, ref, correction, i) ==
  IF i > Len(correction.line.cells) THEN h
  ELSE LET cell == correction.line.cells[i]
       IN MoveCells([h EXCEPT ![ref] =
                        set_cell(clear_cell(@, cell.row, cell.col),
                                 cell.row + correction.row_offset,
                                 cell.col + correction.col_offset, cell.value)],
                    ref, correction, i + 1)

apply_correction_cellwise(h, correction, ref) ==
  LET c == grid_copy(h, ref)
  IN IF correction.row_offset = 0 /\ correction.col_offset = 0
     THEN [heap |-> c.heap, ref |-> c.ref, raised |-> "none"]
     ELSE IF out_of_bounds(correction, c.heap[c.ref])
     THEN [heap |-> c.heap, ref |-> NoRef, raised |-> "ValueError"]
     ELSE [heap |-> MoveCells(c.heap, c.ref, correction, 1), ref |-> c.ref,
           raised |-> "none"]

\* apply_correction: the heap after the call, the returned grid, and the
\* exception raised ("none" when it returns).
apply_correction(h, correction, ref) ==
  LET c == grid_copy(h, ref)
  IN IF correction.row_offset = 0 /\ correction.col_offset = 0
     THEN [heap |-> c.heap, ref |-> c.ref, raised |-> "none"]
     ELSE IF out_of_bounds(correction, c.heap[c.ref])
     THEN [heap |-> c.heap, ref |-> NoRef, raised |-> "ValueError"]
     ELSE [heap |-> PlaceCells(ClearCells(c.heap, c.ref, correction.line.cells, 1),
                               c.ref, correction, 1),
           ref |-> c.ref, raised |-> "none"]

(***************************************************************************)
(* Settings (config/settings.py): the fields the class declares, with      *)
(* their defaults.  Reading an attribute the class does not declare raises *)
(* AttributeError.                                                         *)
(***************************************************************************)
Settings ==
  [tolerance |-> 1, min_line_length |-> 2, min_overlap_ratio |-> [num |-> 1, den |-> 2],
   preserve_connections |-> TRUE, dry_run |-> FALSE, log_level |-> "INFO",
   log_format |-> "json", default_encoding |-> "utf-8"]

has_attribute(settings, name) == name \in DOMAIN settings

(***************************************************************************)
(* Correction engine (correction/correction_engine.py)                     *)
(***************************************************************************)
group_contains_tree_branch(group, g) ==
  \E i \in 1..Len(group.lines) :
     \E j \in 1..Len(group.lines[i].cells) :
        is_tree_branch(g, group.lines[i].cells[j].row, group.lines[i].cells[j].col)

filter_tree_groups(groups, g) ==
  SelectSeq(groups, LAMBDA group : ~group_contains_tree_branch(group, g))

\* `if not lines:` without the test: the pipeline never returns early.
lines_always(lines) == FALSE

\* `if not lines:`, the early return of correct and analyze.
not_lines(lines) == Len(lines) = 0

\* The extends in the opposite order: row shifts first, alignment last.
extend_reversed(alignment, box_corrections, stray_corrections, row_shift_corrections) ==
  row_shift_corrections \o stray_corrections \o box_corrections \o alignment

\* all_corrections after its four extends, in the order the code runs them.
extend(alignment, box_corrections, stray_corrections, row_shift_corrections) ==
  alignment \o box_corrections \o stray_corrections \o row_shift_corrections

\* The pipeline from the calculation of the corrections on, given the lines
\* detected and the groups kept.
calculate_all(g, cfg, lines, groups) ==
  [raised |-> "none", no_lines |-> FALSE, groups |-> groups,
   corrections |->
     extend(FlattenSeq([k \in 1..Len(groups) |-> calculate_alignment(groups[k])]),
            calculate_corrections(detect_boxes(g)),
            find_stray_corrections(g, lines, cfg.tolerance),
            find_row_shift_corrections(g, cfg.tolerance))]

\* The groups the pipeline keeps of the groups found.
kept_groups(g, settings, structure_type, found) ==
  IF structure_type = "TREE" /\ settings.preserve_trees
  THEN filter_tree_groups(found, g)
  ELSE found

\* The pipeline after line detection, given the lines and the structure type.
pipeline_on_lines(g, cfg, settings, lines, structure_type) ==
  IF not_lines(lines)
  THEN [raised |-> "none", no_lines |-> TRUE, groups |-> <<>>, corrections |-> <<>>]
  ELSE IF structure_type = "TREE" /\ ~has_attribute(settings, "preserve_trees")
  THEN [raised |-> "AttributeError", no_lines |-> FALSE, groups |-> <<>>,
        corrections |-> <<>>]
  ELSE calculate_all(g, cfg, lines,
         kept_groups(g, settings, structure_type,
           find_parallel_groups(lines, cfg.tolerance, cfg.min_overlap_ratio)))

\* The detection and computation part shared, line for line, by correct and
\* analyze: the groups found and the concatenated corrections, or the
\* exception that escapes.  no_lines is the short-circuit.
run_pipeline(g, cfg, settings) ==
  pipeline_on_lines(g, cfg, settings, detect_lines(g, cfg.min_line_length), classify(g))

\* Engine configurations: tolerance, min_line_length, min_overlap_ratio.
DefaultConfig ==
  [tolerance |-> 1, min_line_length |-> 2, min_overlap_ratio |-> [num |-> 1, den |-> 2]]

\* The apply loop of correct as one computation: the working grid and the
\* number of corrections applied after corrections[i..].
RECURSIVE ApplyLoop(_, _, _, _, _)
ApplyLoop(h, ref, corrections, i, count) ==
  IF i > Len(corrections) THEN [grid |-> h[ref], count |-> count]
  ELSE LET r == apply_correction(h, corrections[i], ref)
       IN IF r.raised = "ValueError"
          THEN ApplyLoop(r.heap, ref, corrections, i + 1, count)
          ELSE ApplyLoop(r.heap, r.ref, corrections, i + 1, count + 1)

\* The result of correct given what the pipeline gave.
correct_result(g, p) ==
  IF p.raised # "none"
  THEN [raised |-> p.raised, grid |-> g, count |-> 0]
  ELSE IF p.no_lines
  THEN [raised |-> "none", grid |-> g, count |-> 0]
  ELSE [raised |-> "none"] @@ ApplyLoop(<<g>>, 1, p.corrections, 1, 0)

\* CorrectionEngine.correct as its caller sees it: the exception that
\* escapes, or the corrected grid and corrections_count of the result.
engine_correct(g, c) == correct_result(g, run_pipeline(g, c, Settings))

(***************************************************************************)
(* Markdown (io/markdown_parser.py, io/diagram_classifier.py,              *)
(* io/markdown_corrector.py).  A string is the sequence of its characters. *)
(***************************************************************************)
\* The fence characters of the documents modelled; the pattern accepts the
\* grave accent under the same rule.
FenceChars == {"~"}

\* [a-zA-Z0-9_+\-], among the characters of the documents modelled.
LanguageChars == {"a", "p", "r", "t", "y", "_", "+", "-"}

\* How many characters from position i on belong to S.
RECURSIVE RunFrom(_, _, _)
RunFrom(line, i, S) ==
  IF i <= Len(line) /\ line[i] \in S THEN 1 + RunFrom(line, i + 1, S) ELSE 0

\* _FENCE_RE.match(line): <<>> for no match, else the groups of the match.
fence_match(line) ==
  LET indent == RunFrom(line, 1, Whitespace)
      ch == IF indent < Len(line) THEN line[indent + 1] ELSE Blank
      fence == IF ch \in FenceChars THEN RunFrom(line, indent + 1, {ch}) ELSE 0
      lang == RunFrom(line, indent + fence + 1, LanguageChars)
      trail == RunFrom(line, indent + fence + lang + 1, Whitespace)
  IN IF fence >= 3 /\ indent + fence + lang + trail = Len(line)
     THEN <<[fence_indent |-> SubSeq(line, 1, indent), fence_char |-> ch,
             fence_len |-> fence,
             language |-> SubSeq(line, indent + fence + 1, indent + fence + lang)]>>
     ELSE <<>>

\* The test of the inner loop of parse: close_match closes the fence open.
is_close(close_match, open) ==
  /\ close_match # <<>>
  /\ close_match[1].fence_char = open.fence_char
  /\ close_match[1].fence_len >= open.fence_len
  /\ close_match[1].language = <<>>

\* The inner loop of parse: the 1-based index of the closing fence at or
\* after line j, 0 when there is none.
RECURSIVE find_close(_, _, _)
find_close(lines, j, open) ==
  IF j > Len(lines) THEN 0
  ELSE IF is_close(fence_match(lines[j]), open) THEN j
  ELSE find_close(lines, j + 1, open)

\* The CodeBlock of lines i..j, fences included, opened by match.
code_block(lines, i, j, match) ==
  [language |-> match.language,
   content |-> join(SubSeq(lines, i + 1, j - 1)),
   start_line |-> i - 1, end_line |-> j - 1,
   fence_char |-> match.fence_char,
   fence_indent |-> match.fence_indent]

\* The outer loop of parse; start_line and end_line count from 0.
RECURSIVE ParseLoop(_, _, _)

\* One line of the outer loop that opens a fence: j is where it closes.
ParseFence(lines, i, code_blocks, match, j) ==
  IF j = 0 THEN ParseLoop(lines, i + 1, code_blocks)
  ELSE ParseLoop(lines, j + 1, Append(code_blocks, code_block(lines, i, j, match)))

\* One line of the outer loop, given the match of the fence pattern on it.
ParseLine(lines, i, code_blocks, match) ==
  IF match = <<>> THEN ParseLoop(lines, i + 1, code_blocks)
  ELSE ParseFence(lines, i, code_blocks, match[1], find_close(lines, i + 1, match[1]))

ParseLoop(lines, i, code_blocks) ==
  IF i > Len(lines) THEN code_blocks
  ELSE ParseLine(lines, i, code_blocks, fence_match(lines[i]))

\* MarkdownParser.parse: the code blocks of the document.
parse(md) == ParseLoop(split(md, <<>>), 1, <<>>)

\* MarkdownDocument.replace_content on a valid block index.
replace_content(md, code_blocks, block_index, new_content) ==
  LET block == code_blocks[block_index + 1]
      lines == split(md, <<>>)
      new_content_lines == IF new_content = <<>> THEN <<>> ELSE split(new_content, <<>>)
  IN join(SubSeq(lines, 1, block.start_line + 1) \o new_content_lines
          \o SubSeq(lines, block.end_line + 1, Len(lines)))

ARROW_CHARS == {"<", ">", "^", "v", "V"}

DIAGRAM_CHARS ==
  HORIZONTAL_CHARS \cup VERTICAL_CHARS \cup CORNER_CHARS \cup JUNCTION_CHARS
  \cup ARROW_CHARS

\* DiagramClassifier(): the default languages and ratio.
diagram_languages ==
  {<<>>, <<"a", "s", "c", "i", "i">>, <<"t", "e", "x", "t">>,
   <<"d", "i", "a", "g", "r", "a", "m">>, <<"a", "r", "t">>}

min_char_ratio == [num |-> 5, den |-> 100]

is_diagram(content, language) ==
  LET non_whitespace == SelectSeq(content, LAMBDA ch : ch \notin Whitespace)
      diagram_count == Len(SelectSeq(non_whitespace, LAMBDA ch : ch \in DIAGRAM_CHARS))
  IN /\ language \in diagram_languages
     /\ Len(non_whitespace) > 0
     /\ diagram_count * min_char_ratio.den >= min_char_ratio.num * Len(non_whitespace)

\* The 0-based indices of the blocks classified as diagrams, in order.
diagram_indices(code_blocks) ==
  SelectSeq([k \in 1..Len(code_blocks) |-> k - 1],
            LAMBDA i : is_diagram(code_blocks[i + 1].content, code_blocks[i + 1].language))

\* The loop of MarkdownCorrector.correct over reversed(diagram_indices); k
\* counts down through the indices.  The blocks corrected come from the first
\* parse, the positions from a new parse of the text so far.
RECURSIVE SpliceLoop(_, _, _, _, _, _)

\* The result when exception e escapes the loop.
SpliceRaised(e, indices, result_text, blocks_corrected, total_corrections) ==
  [raised |-> e, corrected_text |-> result_text,
   blocks_found |-> Len(indices), blocks_corrected |-> blocks_corrected,
   total_corrections |-> total_corrections]

\* One iteration, given the engine's result on the block and the new parse.
SpliceStep(code_blocks, indices, k, result_text, blocks_corrected, total_corrections, correction_result, current_blocks) ==
  IF correction_result.raised # "none"
  THEN SpliceRaised(correction_result.raised, indices, result_text, blocks_corrected,
                    total_corrections)
  ELSE IF indices[k] >= Len(current_blocks)
  THEN SpliceRaised("IndexError", indices, result_text, blocks_corrected,
                    total_corrections)
  ELSE SpliceLoop(code_blocks, indices, k - 1,
         replace_content(result_text, current_blocks, indices[k],
                         join(to_string(correction_result.grid))),
         IF correction_result.count > 0 THEN blocks_corrected + 1
         ELSE blocks_corrected,
         total_corrections + correction_result.count)

SpliceLoop(code_blocks, indices, k, result_text, blocks_corrected, total_corrections) ==
  IF k = 0
  THEN SpliceRaised("none", indices, result_text, blocks_corrected, total_corrections)
  ELSE SpliceStep(code_blocks, indices, k, result_text, blocks_corrected,
                  total_corrections,
                  engine_correct(
                    from_string(split(code_blocks[indices[k] + 1].content, <<>>)),
                    DefaultConfig),
                  parse(result_text))

\* correct from the classification on, given the blocks of the first parse.
correct_blocks(md, code_blocks, indices) ==
  SpliceLoop(code_blocks, indices, Len(indices), md, 0, 0)

\* correct after the first parse.
correct_parsed(md, code_blocks) ==
  correct_blocks(md, code_blocks, diagram_indices(code_blocks))

\* MarkdownCorrector.correct
markdown_correct(md) == correct_parsed(md, parse(md))

(***************************************************************************)
(* State                                                                   *)
(***************************************************************************)
VARIABLES
  text,                 \* the text the caller built its grid from
  heap,                 \* the grid objects, by reference
  grid,                 \* the reference the caller passes in
  orig,                 \* the content of the caller's grid when the call began
  cfg,                  \* the engine's tolerance, min_line_length, min_overlap_ratio
  op,                   \* the entry point called: "none", "correct", "analyze", ...
  pc,                   \* "idle", "applying", "done" or "raised"
  pass,                 \* how many times correct has been called in a row
  all_corrections,      \* all_corrections of the call
  next_correction,      \* the index the apply loop has reached
  applied_corrections,  \* corrections_applied
  skipped,              \* the corrections the apply loop dropped on ValueError
  corrected_grid,       \* the reference of the result's corrected_grid
  groups_found,         \* groups_found of the result
  raised,               \* the exception that escaped the call ("none")
  call,                 \* the arguments of the last call of a single component
  returned              \* what the last call of a single component returned

vars == <<call, returned, text, heap, grid, orig, cfg, op, pc, pass, all_corrections, next_correction,
          applied_corrections, skipped, corrected_grid, groups_found, raised>>

\* The caller holds one grid and has called nothing yet.
Start(t, c) ==
  /\ text = t
  /\ heap = <<from_string(t)>>
  /\ grid = 1
  /\ orig = from_string(t)
  /\ cfg = c
  /\ op = "none"
  /\ pc = "idle"
  /\ pass = 0
  /\ all_corrections = <<>>
  /\ next_correction = 1
  /\ applied_corrections = <<>>
  /\ skipped = <<>>
  /\ corrected_grid = NoRef
  /\ groups_found = <<>>
  /\ raised = "none"
  /\ call = <<>>
  /\ returned = NoCell

\* correct, up to the start of the apply loop, given what the pipeline gave
\* and the working copy: either the short-circuit return, an escaping
\* exception, or the working copy.
BeginWith(ref, p, c) ==
  /\ op' = "correct"
  /\ grid' = ref
  /\ orig' = heap[ref]
  /\ pass' = pass + 1
  /\ next_correction' = 1
  /\ applied_corrections' = <<>>
  /\ skipped' = <<>>
  /\ UNCHANGED <<call, returned, text, cfg>>
  /\ IF p.raised # "none"
     THEN /\ pc' = "raised"
          /\ raised' = p.raised
          /\ corrected_grid' = NoRef
          /\ all_corrections' = <<>>
          /\ groups_found' = <<>>
          /\ UNCHANGED heap
     ELSE /\ pc' = IF p.no_lines THEN "done" ELSE "applying"
          /\ raised' = "none"
          /\ heap' = c.heap
          /\ corrected_grid' = c.ref
          /\ all_corrections' = p.corrections
          /\ groups_found' = p.groups

BeginCorrect(ref) ==
  BeginWith(ref, run_pipeline(heap[ref], cfg, Settings), grid_copy(heap, ref))

CorrectCall ==
  /\ pc = "idle"
  /\ BeginCorrect(grid)

\* One iteration of the apply loop: apply_correction on the working grid;
\* a ValueError drops the correction and the loop goes on.
ApplyNext ==
  /\ pc = "applying"
  /\ next_correction <= Len(all_corrections)
  /\ LET correction == all_corrections[next_correction]
         r == apply_correction(heap, correction, corrected_grid)
     IN /\ heap' = r.heap
        /\ IF r.raised = "ValueError"
           THEN /\ skipped' = Append(skipped, correction)
                /\ UNCHANGED <<corrected_grid, applied_corrections>>
           ELSE /\ corrected_grid' = r.ref
                /\ applied_corrections' = Append(applied_corrections, correction)
                /\ UNCHANGED skipped
        /\ next_correction' = next_correction + 1
  /\ UNCHANGED <<call, returned, text, grid, orig, cfg, op, pc, pass, all_corrections, groups_found, raised>>

\* The loop is over: correct returns its CorrectionResult.
CorrectReturn ==
  /\ pc = "applying"
  /\ next_correction > Len(all_corrections)
  /\ pc' = "done"
  /\ UNCHANGED <<call, returned, text, heap, grid, orig, cfg, op, pass, all_corrections, next_correction,
                 applied_corrections, skipped, corrected_grid, groups_found, raised>>

\* The caller runs correct again, on the corrected grid of the result.
MaxPasses == 2

CorrectAgain ==
  /\ pc = "done"
  /\ op = "correct"
  /\ pass < MaxPasses
  /\ BeginCorrect(corrected_grid)

\* analyze, given what the pipeline gave and the copy: an unchanged copy,
\* nothing applied.
AnalyzeWith(p, c) ==
  /\ op' = "analyze"
  /\ IF p.raised # "none"
     THEN /\ pc' = "raised"
          /\ raised' = p.raised
          /\ UNCHANGED <<heap, corrected_grid, applied_corrections, groups_found,
                         all_corrections>>
     ELSE /\ pc' = "done"
          /\ heap' = c.heap
          /\ corrected_grid' = c.ref
          /\ all_corrections' = p.corrections
          /\ applied_corrections' = p.corrections
          /\ groups_found' = p.groups
          /\ UNCHANGED raised
  /\ UNCHANGED <<call, returned, text, grid, orig, cfg, pass, next_correction, skipped>>

\* analyze: the same pipeline as correct.
AnalyzeCall ==
  /\ pc = "idle"
  /\ AnalyzeWith(run_pipeline(heap[grid], cfg, Settings), grid_copy(heap, grid))

(***************************************************************************)
(* Direct calls of the components                                          *)
(***************************************************************************)
\* The lines a caller can hand to apply_correction: cells at a non-empty set
\* of positions of one row or of one column, in increasing order.  A cell
\* carries the character the grid holds there, or (stale) a character the
\* caller put in the cell itself.
RECURSIVE IncreasingSeq(_)
IncreasingSeq(S) ==
  IF S = {} THEN <<>>
  ELSE LET least == CHOOSE x \in S : \A y \in S : x <= y
       IN <<least>> \o IncreasingSeq(S \ {least})

StaleChar == "#"

CellAt(g, row, col, stale) ==
  Cell(IF stale THEN StaleChar ELSE get_cell(g, row, col), row, col)

RowLines(g, stale) ==
  {Line([k \in 1..Cardinality(S) |-> CellAt(g, r, IncreasingSeq(S)[k], stale)],
        "HORIZONTAL") :
     <<r, S>> \in (0..(g.height - 1)) \X ((SUBSET (0..(g.width - 1))) \ {{}})}

ColLines(g, stale) ==
  {Line([k \in 1..Cardinality(S) |-> CellAt(g, IncreasingSeq(S)[k], c, stale)],
        "VERTICAL") :
     <<c, S>> \in (0..(g.width - 1)) \X ((SUBSET (0..(g.height - 1))) \ {{}})}

\* The largest offset, in either axis, of a correction handed in directly.
MaxOffset == 1

\* ShiftCorrector.apply_correction called on the caller's grid.
ApplyCorrectionCall ==
  /\ pc = "idle"
  /\ \E stale \in BOOLEAN :
     \E line \in RowLines(heap[grid], stale) \cup ColLines(heap[grid], stale) :
       \E row_offset \in (0 - MaxOffset)..MaxOffset :
          \E col_offset \in (0 - MaxOffset)..MaxOffset :
             LET correction == ShiftCorrection(line, row_offset, col_offset)
                 r == apply_correction(heap, correction, grid)
             IN /\ op' = "apply_correction"
                /\ all_corrections' = <<correction>>
                /\ heap' = r.heap
                /\ corrected_grid' = r.ref
                /\ raised' = r.raised
                /\ pc' = IF r.raised = "none" THEN "done" ELSE "raised"
                /\ applied_corrections' = IF r.raised = "none" THEN <<correction>> ELSE <<>>
  /\ UNCHANGED <<call, returned, text, grid, orig, cfg, pass, next_correction, skipped, groups_found>>

\* RowShiftCorrector(tolerance).find_row_shift_corrections on the caller's grid.
FindRowShiftCall ==
  /\ pc = "idle"
  /\ op' = "find_row_shift_corrections"
  /\ all_corrections' = find_row_shift_corrections(heap[grid], cfg.tolerance)
  /\ pc' = "found"
  /\ UNCHANGED <<call, returned, text, heap, grid, orig, cfg, pass, next_correction, applied_corrections,
                 skipped, corrected_grid, groups_found, raised>>

\* StrayCharacterFinder(tolerance).find_stray_corrections on the caller's
\* grid and the lines LineDetector(min_line_length) detects in it.
FindStrayCall ==
  /\ pc = "idle"
  /\ op' = "find_stray_corrections"
  /\ all_corrections' =
       find_stray_corrections(heap[grid], detect_lines(heap[grid], cfg.min_line_length),
                              cfg.tolerance)
  /\ pc' = "found"
  /\ UNCHANGED <<call, returned, text, heap, grid, orig, cfg, pass, next_correction, applied_corrections,
                 skipped, corrected_grid, groups_found, raised>>

\* The caller applies the corrections it was given, one after the other,
\* with ShiftCorrector.apply_correction (as apply_corrections does).
ApplyFound ==
  /\ pc = "found"
  /\ next_correction <= Len(all_corrections)
  /\ LET r == apply_correction(heap, all_corrections[next_correction],
                               IF corrected_grid = NoRef THEN grid ELSE corrected_grid)
     IN /\ heap' = r.heap
        /\ raised' = r.raised
        /\ IF r.raised = "none"
           THEN /\ corrected_grid' = r.ref
                /\ applied_corrections' =
                     Append(applied_corrections, all_corrections[next_correction])
                /\ pc' = IF next_correction = Len(all_corrections) THEN "done" ELSE "found"
           ELSE /\ pc' = "raised"
                /\ UNCHANGED <<corrected_grid, applied_corrections>>
        /\ next_correction' = next_correction + 1
  /\ UNCHANGED <<call, returned, text, grid, orig, cfg, op, pass, all_corrections, skipped, groups_found>>

(***************************************************************************)
(* Inputs                                                                  *)
(***************************************************************************)
WideConfig == [DefaultConfig EXCEPT !.tolerance = 2]

ZeroConfig == [DefaultConfig EXCEPT !.tolerance = 0]

Repeat(ch, n) == [k \in 1..n |-> ch]

\* A box of the given width and height drawn with a left margin, whose row k
\* has its left edge displaced by dl columns and its right edge by dr (row k
\* of a box with dl = dr = 0 is as the others; dl = dr displaces the row).
BoxText(w, h, margin, fill, k, dl, dr) ==
  [r1 \in 1..h |->
     LET edge == r1 = 1 \/ r1 = h
         side == IF edge THEN "+" ELSE "|"
         inner == IF edge THEN "-" ELSE fill
         left == IF r1 - 1 = k THEN margin + dl ELSE margin
         right == IF r1 - 1 = k THEN margin + w - 1 + dr ELSE margin + w - 1
     IN Repeat(Blank, left) \o <<side>> \o Repeat(inner, right - left - 1) \o <<side>>]

MaxBoxWidth == 4

MaxBoxHeight == 4

MaxMargin == 1

BoxTexts ==
  {BoxText(w, h, m, fill, k, dl, dr) :
     <<w, h, m, fill, k, dl, dr>> \in
       {q \in (3..MaxBoxWidth) \X (3..MaxBoxHeight) \X (0..MaxMargin) \X {Blank, "a"}
               \X (0..(MaxBoxHeight - 1)) \X {0 - 1, 0, 1} \X {0 - 1, 0, 1} :
          q[5] < q[2] /\ q[3] + q[6] >= 0}}

\* A tree: a label, a stem and n branches drawn from the stem's column, each
\* a "+" followed by dashes and a label.
TreeText(margin, n, dashes) ==
  <<Repeat(Blank, margin) \o <<"r">>, Repeat(Blank, margin) \o <<"|">>>>
  \o [k \in 1..n |-> Repeat(Blank, margin) \o <<"+">> \o Repeat("-", dashes) \o <<Blank, "a">>]

MaxBranches == 3

TreeTexts ==
  {TreeText(m, n, dashes) :
     <<m, n, dashes>> \in (0..MaxMargin) \X (1..MaxBranches) \X {1, 2, 3}}

\* A column of pipes, h rows high in column c, whose row k has its pipe e
\* columns off and, when l is a column, a letter in column l.
PipeRow(c, e, l) ==
  [j \in 1..(Max2(c + e, l) + 1) |->
     IF j - 1 = c + e THEN "|" ELSE IF j - 1 = l THEN "a" ELSE Blank]

PipeText(h, c, k, e, l) ==
  [r1 \in 1..h |-> IF r1 - 1 = k THEN PipeRow(c, e, l) ELSE Repeat(Blank, c) \o <<"|">>]

MaxPipeCol == 2

MaxReach == 2

MaxPipeHeight == 5

PipeTexts ==
  {PipeText(h, c, k, e, l) :
     <<h, c, k, e, l>> \in
       {q \in (3..MaxPipeHeight) \X (0..MaxPipeCol) \X (0..(MaxPipeHeight - 1))
               \X ((0 - MaxReach)..MaxReach) \X ((0 - 1)..(MaxPipeCol + MaxReach + 1)) :
          q[3] < q[1] /\ q[2] + q[4] >= 0 /\ q[5] # q[2] + q[4]}}

\* The same turned a quarter: a row of dashes, w columns wide in row r, whose
\* column k has its dash e rows off and, when l is a row, a letter in row l.
DashText(w, r, k, e, l) ==
  [i \in 1..(Max2(Max2(r, r + e), l) + 1) |->
     [j \in 1..w |->
        IF j - 1 # k THEN (IF i - 1 = r THEN "-" ELSE Blank)
        ELSE IF i - 1 = r + e THEN "-"
        ELSE IF i - 1 = l THEN "a"
        ELSE Blank]]

DashTexts ==
  {DashText(w, r, k, e, l) :
     <<w, r, k, e, l>> \in
       {q \in (3..MaxPipeHeight) \X (0..MaxPipeCol) \X (0..(MaxPipeHeight - 1))
               \X ((0 - MaxReach)..MaxReach) \X ((0 - 1)..(MaxPipeCol + MaxReach + 1)) :
          q[3] < q[1] /\ q[2] + q[4] >= 0 /\ q[5] # q[2] + q[4]}}

\* Lines of a single character count as lines.
ShortLineConfig == [DefaultConfig EXCEPT !.min_line_length = 1]

\* Every small grid holding at most MaxInk line characters, all vertical or
\* all horizontal.
SmallShape == [width |-> 3, height |-> 3]

MaxInk == 5

SmallTexts ==
  {t \in [1..SmallShape.height -> [1..SmallShape.width -> {Blank, "|", "-"}]] :
     /\ Cardinality({p \in (1..SmallShape.height) \X (1..SmallShape.width) :
                       t[p[1]][p[2]] # Blank}) <= MaxInk
     /\ \E ch \in {"|", "-"} :
           \A p \in (1..SmallShape.height) \X (1..SmallShape.width) :
              t[p[1]][p[2]] \in {Blank, ch}}

\* The boxes whose row k is displaced as a whole (or not at all).
ShiftedBoxTexts ==
  {BoxText(w, h, m, fill, k, d, d) :
     <<w, h, m, fill, k, d>> \in
       {q \in (3..MaxBoxWidth) \X (3..MaxBoxHeight) \X (0..MaxMargin) \X {Blank, "a"}
               \X (0..(MaxBoxHeight - 1)) \X {0 - 1, 0, 1} :
          q[5] < q[2] /\ q[3] + q[6] >= 0}}

Init ==
  \/ \E t \in SmallTexts : \E c \in {DefaultConfig, ZeroConfig} : Start(t, c)
  \/ \E t \in ShiftedBoxTexts :
        \E c \in {DefaultConfig, WideConfig, ZeroConfig} : Start(t, c)
  \/ \E t \in TreeTexts : \E c \in {DefaultConfig, ZeroConfig} : Start(t, c)

Next ==
  \/ CorrectCall
  \/ ApplyNext
  \/ CorrectReturn
  \/ CorrectAgain
  \/ AnalyzeCall

\* The engine: correct (once, or again on its own result) or analyze.
Spec == Init /\ [][Next]_vars

\* The grids of the direct calls of apply_correction: every placement of
\* vertical bars on a grid small enough to try every line and offset.
ShiftShape == [width |-> 3, height |-> 2]

ShiftTexts ==
  {[r \in 1..ShiftShape.height |->
      [c \in 1..ShiftShape.width |-> IF <<r, c>> \in S THEN "|" ELSE Blank]] :
     S \in SUBSET ((1..ShiftShape.height) \X (1..ShiftShape.width))}

ShiftInit == \E t \in ShiftTexts : Start(t, DefaultConfig)

ShiftNext ==
  \/ ApplyCorrectionCall
  \/ CorrectCall
  \/ ApplyNext
  \/ CorrectReturn
  \/ AnalyzeCall

\* One call of any of the three entry points that take the caller's grid.
ShiftSpec == ShiftInit /\ [][ShiftNext]_vars

RowShiftNext ==
  \/ FindRowShiftCall
  \/ ApplyFound

RowShiftInit ==
  \/ \E t \in SmallTexts : \E c \in {DefaultConfig, WideConfig} : Start(t, c)
  \/ \E t \in BoxTexts : \E c \in {DefaultConfig, WideConfig} : Start(t, c)
  \/ \E t \in PipeTexts : \E c \in {DefaultConfig, WideConfig} : Start(t, c)

\* The row shift corrector called on its own, its corrections then applied.
RowShiftSpec == RowShiftInit /\ [][RowShiftNext]_vars

StrayInit ==
  \/ \E t \in SmallTexts : \E c \in {DefaultConfig, ShortLineConfig} : Start(t, c)
  \/ \E t \in PipeTexts \cup DashTexts :
        \E c \in {DefaultConfig, WideConfig, ShortLineConfig} : Start(t, c)

StrayNext ==
  \/ FindStrayCall
  \/ ApplyFound

\* The stray character finder called on its own, its corrections then applied.
StraySpec == StrayInit /\ [][StrayNext]_vars

(***************************************************************************)
(* The Grid object called directly (domain/grid.py)                        *)
(***************************************************************************)
MaxCols == 3

MaxRows == 2

MaxCells == 4

\* The texts a grid is built from: a first line of w letters and h - 1 empty
\* lines after it, which from_string pads to the width w.
GridTexts ==
  {[r \in 1..s[2] |-> IF r = 1 THEN Repeat("a", s[1]) ELSE <<>>] :
     s \in {q \in (0..MaxCols) \X (1..MaxRows) : q[1] * q[2] <= MaxCells}}

\* The characters the caller writes: Character accepts any string of length 1.
GridChars == {"a", Blank, NewLine}

\* The positions the caller passes: every cell of the grid and the positions
\* one step outside it on each side.
RowArgs(g) == (0 - 1)..g.height

ColArgs(g) == (0 - 1)..g.width

\* grid.set_cell(Position(row, col), Character(ch))
SetCellCall ==
  /\ pc = "idle"
  /\ \E row \in RowArgs(heap[grid]) : \E col \in ColArgs(heap[grid]) : \E ch \in GridChars :
        /\ op' = "set_cell"
        /\ call' = [row |-> row, col |-> col, ch |-> ch]
        /\ orig' = heap[grid]
        /\ heap' = [heap EXCEPT ![grid] = set_cell(@, row, col, ch)]
        /\ raised' = IF set_cell_raises(heap[grid], row, col) THEN "IndexError" ELSE "none"
  /\ UNCHANGED <<returned, text, grid, cfg, pc, pass, all_corrections, next_correction,
                 applied_corrections, skipped, corrected_grid, groups_found>>

\* grid.clear_cell(Position(row, col))
ClearCellCall ==
  /\ pc = "idle"
  /\ \E row \in RowArgs(heap[grid]) : \E col \in ColArgs(heap[grid]) :
        /\ op' = "clear_cell"
        /\ call' = [row |-> row, col |-> col, ch |-> Blank]
        /\ orig' = heap[grid]
        /\ heap' = [heap EXCEPT ![grid] = clear_cell(@, row, col)]
        /\ raised' = IF set_cell_raises(heap[grid], row, col) THEN "IndexError" ELSE "none"
  /\ UNCHANGED <<returned, text, grid, cfg, pc, pass, all_corrections, next_correction,
                 applied_corrections, skipped, corrected_grid, groups_found>>

\* grid.get_cell(Position(row, col))
GetCellCall ==
  /\ pc = "idle"
  /\ \E row \in RowArgs(heap[grid]) : \E col \in ColArgs(heap[grid]) :
        /\ op' = "get_cell"
        /\ call' = [row |-> row, col |-> col, ch |-> NoCell]
        /\ orig' = heap[grid]
        /\ returned' = get_cell(heap[grid], row, col)
        /\ raised' = "none"
  /\ UNCHANGED <<text, heap, grid, cfg, pc, pass, all_corrections, next_correction,
                 applied_corrections, skipped, corrected_grid, groups_found>>

\* grid = grid.copy(): the caller goes on with the copy.
CopyCall ==
  /\ pc = "idle"
  /\ LET c == grid_copy(heap, grid)
     IN /\ op' = "copy"
        /\ call' = <<>>
        /\ orig' = heap[grid]
        /\ heap' = <<c.heap[c.ref]>>
        /\ raised' = "none"
  /\ UNCHANGED <<returned, text, grid, cfg, pc, pass, all_corrections, next_correction,
                 applied_corrections, skipped, corrected_grid, groups_found>>

\* Grid.from_string(grid.to_string()): the grid written out and read back,
\* the last thing the caller does.
ReloadCall ==
  /\ pc = "idle"
  /\ LET t == split(join(to_string(heap[grid])), <<>>)
     IN /\ op' = "from_string"
        /\ pc' = "done"
        /\ call' = <<>>
        /\ orig' = heap[grid]
        /\ text' = t
        /\ heap' = <<from_string(t)>>
        /\ raised' = "none"
  /\ UNCHANGED <<returned, grid, cfg, pass, all_corrections, next_correction,
                 applied_corrections, skipped, corrected_grid, groups_found>>

GridInit == \E t \in GridTexts : Start(t, DefaultConfig)

GridNext ==
  \/ SetCellCall
  \/ ClearCellCall
  \/ GetCellCall
  \/ CopyCall
  \/ ReloadCall

\* A caller working on one Grid object through its public methods.
GridSpec == GridInit /\ [][GridNext]_vars

(***************************************************************************)
(* The box detector called directly                                        *)
(***************************************************************************)
\* Every grid of this shape written with corner and edge characters, its
\* middle cell possibly empty.
CornerShape == [width |-> 3, height |-> 3]

CornerTexts ==
  {t \in [1..CornerShape.height -> [1..CornerShape.width -> {"+", "-", "|", Blank}]] :
     \A p \in (1..CornerShape.height) \X (1..CornerShape.width) :
        t[p[1]][p[2]] = Blank => p = <<2, 2>>}

\* BoxDetector(min_size=2).detect_boxes(grid)
DetectBoxesCall ==
  /\ pc = "idle"
  /\ op' = "detect_boxes"
  /\ pc' = "done"
  /\ returned' = detect_boxes(heap[grid])
  /\ UNCHANGED <<call, text, heap, grid, orig, cfg, pass, all_corrections, next_correction,
                 applied_corrections, skipped, corrected_grid, groups_found, raised>>

BoxInit == \E t \in CornerTexts \cup BoxTexts : Start(t, DefaultConfig)

BoxNext == DetectBoxesCall

BoxSpec == BoxInit /\ [][BoxNext]_vars

(***************************************************************************)
(* The Markdown corrector called on a document                             *)
(***************************************************************************)
Fence(n, language) == Repeat("~", n) \o language

\* The contents of the blocks: a line, a stray dash beside a run of tildes
\* above a line, plain words, and a pipe one column off its line.
BlockContents ==
  {<<Repeat("-", 2)>>,
   <<Repeat("~", 4) \o <<"-">>, Repeat("-", 4)>>,
   <<<<"a", "p">>>>,
   <<<<"|">>, <<"|">>, <<Blank, "|">>>>}

\* A fenced block, with or without a line of prose after it.
Blocks ==
  {<<Fence(3, language)>> \o content \o <<Fence(3, <<>>)>> \o gap :
     language \in {<<>>, <<"p", "y">>}, content \in BlockContents,
     gap \in {<<>>, <<<<"p", "r", "a", "y">>>>}}

MaxBlocks == 2

RECURSIVE BlockRuns(_)
BlockRuns(n) ==
  IF n = 0 THEN {<<>>}
  ELSE {b \o d : b \in Blocks, d \in BlockRuns(n - 1)} \cup BlockRuns(n - 1)

\* The documents: up to MaxBlocks blocks, after nothing or after an opening
\* fence of four tildes that nothing closes.
MarkdownTexts ==
  {lead \o d : lead \in {<<>>, <<Fence(4, <<>>)>>}, d \in BlockRuns(MaxBlocks) \ {<<>>}}

\* MarkdownCorrector(parser, classifier, engine).correct(text)
MarkdownReturn(r) ==
  /\ op' = "markdown_correct"
  /\ returned' = r
  /\ raised' = r.raised
  /\ pc' = IF r.raised = "none" THEN "done" ELSE "raised"
  /\ UNCHANGED <<call, text, heap, grid, orig, cfg, pass, all_corrections, next_correction,
                 applied_corrections, skipped, corrected_grid, groups_found>>

MarkdownCorrectCall ==
  /\ pc = "idle"
  /\ MarkdownReturn(markdown_correct(join(text)))

MarkdownInit == \E t \in MarkdownTexts : Start(t, DefaultConfig)

MarkdownNext == MarkdownCorrectCall

MarkdownSpec == MarkdownInit /\ [][MarkdownNext]_vars

(***************************************************************************)
(* RowShiftCorrector._best_offset asked about one structural character     *)
(***************************************************************************)
\* Every grid of this shape holding at most MaxInk pipes.
HistogramShape == [width |-> 5, height |-> 3]

HistogramTexts ==
  {[r \in 1..HistogramShape.height |->
      [c \in 1..HistogramShape.width |-> IF <<r, c>> \in S THEN "|" ELSE Blank]] :
     S \in {S \in SUBSET ((1..HistogramShape.height) \X (1..HistogramShape.width)) :
              Cardinality(S) <= MaxInk}}

\* _check_row's call of _best_offset for a structural character of the grid,
\* with the histogram and positions find_row_shift_corrections built.
BestOffsetCall ==
  /\ pc = "idle"
  /\ \E p \in structural_positions(heap[grid]) :
        /\ call' = p
        /\ returned' = best_offset(p[1], p[2], structural_positions(heap[grid]),
                                   heap[grid].height, cfg.tolerance)
  /\ op' = "best_offset"
  /\ pc' = "done"
  /\ UNCHANGED <<text, heap, grid, orig, cfg, pass, all_corrections, next_correction,
                 applied_corrections, skipped, corrected_grid, groups_found, raised>>

BestOffsetInit ==
  \E t \in HistogramTexts : \E c \in {ZeroConfig, DefaultConfig, WideConfig} : Start(t, c)

BestOffsetNext == BestOffsetCall

BestOffsetSpec == BestOffsetInit /\ [][BestOffsetNext]_vars

(***************************************************************************)
(* The row shift corrector on grids that hold a junction character         *)
(***************************************************************************)
\* The pipe columns with the pipe of one row drawn as the junction "*".
JunctionTexts ==
  {[t EXCEPT ![j] = [c \in DOMAIN t[j] |-> IF t[j][c] = "|" THEN "*" ELSE t[j][c]]] :
     <<t, j>> \in {q \in PipeTexts \X (1..MaxPipeHeight) : q[2] <= Len(q[1])}}

JunctionInit ==
  \E t \in JunctionTexts : \E c \in {DefaultConfig, WideConfig} : Start(t, c)

JunctionSpec == JunctionInit /\ [][RowShiftNext]_vars

(***************************************************************************)
(* The line detector called on a grid                                      *)
(***************************************************************************)
\* Lines need three cells.
LongLineConfig == [DefaultConfig EXCEPT !.min_line_length = 3]

\* Every single row and every single column of MaxLane cells over a line
\* character of each direction, a bridge, a corner that is no bridge and the
\* blank.
MaxLane == 5

LaneChars == {"-", "|", "+", "'", Blank}

LaneTexts ==
  {<<lane>> : lane \in [1..MaxLane -> LaneChars]}
  \cup {[r \in 1..MaxLane |-> <<lane[r]>>] : lane \in [1..MaxLane -> LaneChars]}

\* LineDetector(min_line_length).detect_lines on the caller's grid.
DetectLinesCall ==
  /\ pc = "idle"
  /\ op' = "detect_lines"
  /\ returned' = detect_lines(heap[grid], cfg.min_line_length)
  /\ pc' = "done"
  /\ UNCHANGED <<call, text, heap, grid, orig, cfg, pass, all_corrections, next_correction,
                 applied_corrections, skipped, corrected_grid, groups_found, raised>>

LineInit ==
  \/ \E t \in LaneTexts :
        \E c \in {ShortLineConfig, DefaultConfig, LongLineConfig} : Start(t, c)
  \/ \E t \in CornerTexts : Start(t, DefaultConfig)

LineNext == DetectLinesCall

LineSpec == LineInit /\ [][LineNext]_vars

(***************************************************************************)
(* The parallel line finder and the alignment calculator called on a list  *)
(* of lines                                                                *)
(***************************************************************************)
\* Lines must overlap over the whole of the shorter one.
FullOverlapConfig == [DefaultConfig EXCEPT !.min_overlap_ratio = [num |-> 1, den |-> 1]]

\* The lists of at most `lines` lines drawn on a plane of rows x cols: every
\* horizontal line over a set of columns of one row (gaps allowed, as a
\* bridged line has them; the empty set gives Line(cells=[])), and the
\* vertical lines of two cells or more in the first two columns.
GroupShape == [rows |-> 3, cols |-> 3, lines |-> 3]

LineOver(S, direction, at) ==
  LET axis == SelectSeq([k \in 1..GroupShape.cols |-> k - 1], LAMBDA c : c \in S)
  IN Line([k \in 1..Len(axis) |->
             IF direction = "HORIZONTAL" THEN Cell("-", at, axis[k])
             ELSE Cell("|", axis[k], at)],
          direction)

PoolLines ==
  {LineOver(S, "HORIZONTAL", row) :
     <<S, row>> \in (SUBSET (0..(GroupShape.cols - 1))) \X (0..(GroupShape.rows - 1))}
  \cup {LineOver(S, "VERTICAL", col) : <<S, col>> \in {{0, 1}, {1, 2}, {0, 1, 2}} \X {0, 1}}

LineLists == UNION {[1..n -> PoolLines] : n \in 0..GroupShape.lines}

\* ParallelLineFinder(tolerance, min_overlap_ratio).find_parallel_groups on
\* a list of lines, then AlignmentCalculator.calculate_alignment on each
\* group found, as the engine chains them.
FindGroupsCall ==
  /\ pc = "idle"
  /\ \E lines \in LineLists :
        /\ call' = lines
        /\ groups_found' = find_parallel_groups(lines, cfg.tolerance, cfg.min_overlap_ratio)
  /\ returned' = [k \in 1..Len(groups_found') |-> calculate_alignment(groups_found'[k])]
  /\ op' = "find_parallel_groups"
  /\ pc' = "done"
  /\ UNCHANGED <<text, heap, grid, orig, cfg, pass, all_corrections, next_correction,
                 applied_corrections, skipped, corrected_grid, raised>>

\* The lists of lines of one direction that have cells.
LinesOf(direction) ==
  UNION {[1..n -> {ln \in PoolLines : ln.direction = direction /\ Len(ln.cells) > 0}] :
           n \in 0..GroupShape.lines}

\* The group handed to calculate_alignment: made by _create_group, or
\* ParallelGroup(lines, direction) with no reference and no expected
\* position (as the empty group is).
GroupOf(lines, direction, made) ==
  IF made /\ Len(lines) > 0 THEN create_group(lines, direction)
  ELSE [lines |-> lines, direction |-> direction, reference_line |-> NoLine,
        expected_position |-> NoCoord]

\* AlignmentCalculator.calculate_alignment on a group.
AlignCall ==
  /\ pc = "idle"
  /\ \E direction \in {"HORIZONTAL", "VERTICAL"} :
        \E lines \in LinesOf(direction) :
           \E made \in BOOLEAN :
              /\ call' = GroupOf(lines, direction, made)
              /\ returned' = calculate_alignment(GroupOf(lines, direction, made))
  /\ op' = "calculate_alignment"
  /\ pc' = "done"
  /\ UNCHANGED <<text, heap, grid, orig, cfg, pass, all_corrections, next_correction,
                 applied_corrections, skipped, corrected_grid, groups_found, raised>>

GroupInit ==
  \E c \in {ZeroConfig, DefaultConfig, WideConfig, FullOverlapConfig} : Start(EmptyText, c)

GroupNext ==
  \/ FindGroupsCall
  \/ AlignCall

GroupSpec == GroupInit /\ [][GroupNext]_vars

(***************************************************************************)
(* The box stage of the pipeline on its own: detect_boxes followed by      *)
(* calculate_corrections (correction_engine.py, lines 105-108)             *)
(***************************************************************************)
BoxStageCall ==
  /\ pc = "idle"
  /\ op' = "box_stage"
  /\ pc' = "done"
  /\ returned' = detect_boxes(heap[grid])
  /\ all_corrections' = calculate_corrections(detect_boxes(heap[grid]))
  /\ UNCHANGED <<call, text, heap, grid, orig, cfg, pass, next_correction,
                 applied_corrections, skipped, corrected_grid, groups_found, raised>>

BoxStageInit ==
  \E t \in CornerTexts \cup BoxTexts \cup ShiftedBoxTexts : Start(t, DefaultConfig)

BoxStageNext == BoxStageCall

BoxStageSpec == BoxStageInit /\ [][BoxStageNext]_vars

(***************************************************************************)
(* Properties of ShiftCorrector.apply_correction                           *)
(***************************************************************************)
Sources(correction) ==
  {<<correction.line.cells[i].row, correction.line.cells[i].col>> :
     i \in 1..Len(correction.line.cells)}

Targets(correction) ==
  {<<correction.line.cells[i].row + correction.row_offset,
     correction.line.cells[i].col + correction.col_offset>> :
     i \in 1..Len(correction.line.cells)}

Positions(g) == (0..(g.height - 1)) \X (0..(g.width - 1))

NonZero(correction) == correction.row_offset # 0 \/ correction.col_offset # 0

\* apply_correction was called directly and the call is over.
Called == op = "apply_correction" /\ pc \in {"done", "raised"}

\* C6: a correction with a non-zero offset one of whose translated cells is
\* outside the grid makes apply_correction fail with ValueError, no grid is
\* returned, and no cell of any grid (the caller's or a copy) has changed.
AtomicRejection ==
  (Called /\ NonZero(all_corrections[1])
     /\ Targets(all_corrections[1]) \ Positions(orig) # {})
  => /\ pc = "raised"
     /\ raised = "ValueError"
     /\ corrected_grid = NoRef
     /\ \A i \in DOMAIN heap : heap[i] = orig

\* A rejected correction some of whose cells hold ink and would have landed
\* inside the grid.
AtomicRejectionWitness ==
  /\ Called
  /\ raised = "ValueError"
  /\ Targets(all_corrections[1]) \cap Positions(orig) # {}
  /\ \E p \in Sources(all_corrections[1]) : get_cell(orig, p[1], p[2]) # Blank

\* C7: whatever was called (apply_correction with any outcome, analyze or
\* correct), the grid passed in holds what it held before the call; the
\* grid returned is another object; after a zero-offset correction or
\* analyze it equals the input.
CallerGridUntouched ==
  /\ heap[grid] = orig
  /\ (pc = "done" /\ op \in {"apply_correction", "analyze", "correct"})
       => /\ corrected_grid # NoRef
          /\ corrected_grid # grid
  /\ (pc = "done" /\ (op = "analyze" \/ (op = "apply_correction"
                                         /\ ~NonZero(all_corrections[1]))))
       => heap[corrected_grid] = orig

\* A successful shift whose result differs from the grid passed in.
CallerGridUntouchedWitness ==
  /\ Called
  /\ pc = "done"
  /\ NonZero(all_corrections[1])
  /\ heap[corrected_grid] # orig

\* C8: after a successful apply_correction with a non-zero offset every
\* translated position holds its cell's character, every source position
\* that is no translated position holds a space, and every other position
\* holds what the input grid holds there.
ShiftEffect ==
  (Called /\ pc = "done" /\ NonZero(all_corrections[1]))
  => LET correction == all_corrections[1]
         result == heap[corrected_grid]
     IN /\ result.width = orig.width
        /\ result.height = orig.height
        /\ \A i \in 1..Len(correction.line.cells) :
              get_cell(result, correction.line.cells[i].row + correction.row_offset,
                       correction.line.cells[i].col + correction.col_offset)
                = correction.line.cells[i].value
        /\ \A p \in Sources(correction) \ Targets(correction) :
              get_cell(result, p[1], p[2]) = Blank
        /\ \A p \in Positions(orig) \ (Sources(correction) \cup Targets(correction)) :
              get_cell(result, p[1], p[2]) = get_cell(orig, p[1], p[2])

\* A successful shift of two or more inked cells onto positions some of
\* which are sources of the same correction.
ShiftEffectWitness ==
  /\ Called
  /\ pc = "done"
  /\ NonZero(all_corrections[1])
  /\ Sources(all_corrections[1]) \cap Targets(all_corrections[1]) # {}
  /\ \A p \in Sources(all_corrections[1]) : get_cell(orig, p[1], p[2]) = "|"
  /\ Len(all_corrections[1].line.cells) >= 2

(***************************************************************************)
(* Properties of RowShiftCorrector.find_row_shift_corrections              *)
(***************************************************************************)
\* find_row_shift_corrections was called on the caller's grid.
RowShiftCalled == op = "find_row_shift_corrections"

\* The boxes with one whole row displaced by one column that still fits:
\* width, height, margin, interior, row, displacement.
DisplacedBoxes ==
  {q \in (3..MaxBoxWidth) \X (3..MaxBoxHeight) \X (0..MaxMargin) \X {Blank, "a"}
         \X (0..(MaxBoxHeight - 1)) \X {0 - 1, 1} :
     q[5] < q[2] /\ q[3] + q[6] >= 0}

DisplacedText(q) == BoxText(q[1], q[2], q[3], q[4], q[5], q[6], q[6])

AlignedText(q) == BoxText(q[1], q[2], q[3], q[4], q[5], 0, 0)

\* One correction, for row q[5], moving it back by the displacement; once
\* applied, the grid reads as the box with no row displaced.
Realigned(q) ==
  /\ pc # "raised"
  /\ Len(all_corrections) = 1
  /\ \A i \in 1..Len(all_corrections[1].line.cells) :
        all_corrections[1].line.cells[i].row = q[5]
  /\ all_corrections[1].row_offset = 0
  /\ all_corrections[1].col_offset = 0 - q[6]
  /\ pc = "done" => to_string(heap[corrected_grid]) = AlignedText(q)

\* C9 as stated: every box of width >= 3 and height >= 3 with one row
\* displaced one column left or right gets exactly one correction from
\* RowShiftCorrector(tolerance=1), for that row, undoing the displacement.
SingleDisplacedRowAnyWidth ==
  (RowShiftCalled /\ cfg.tolerance = 1)
  => \A q \in DisplacedBoxes :
        (Len(text) = q[2] /\ text = DisplacedText(q)) => Realigned(q)

\* C9: a box of width >= 4 with one row displaced one column left or right,
\* or of width 3 with one row displaced one column right, gets exactly one
\* correction from RowShiftCorrector(tolerance=1); it is for that row, has
\* row_offset 0 and col_offset minus the displacement, and applying it puts
\* the row back in the columns of the other rows.
SingleDisplacedRow ==
  (RowShiftCalled /\ cfg.tolerance = 1)
  => \A q \in DisplacedBoxes :
        (Len(text) = q[2] /\ text = DisplacedText(q) /\ (q[1] >= 4 \/ q[6] = 1))
           => Realigned(q)

\* A box with text inside whose middle row was displaced to the left has
\* been realigned.
SingleDisplacedRowWitness ==
  /\ RowShiftCalled
  /\ cfg.tolerance = 1
  /\ pc = "done"
  /\ \E q \in DisplacedBoxes :
        /\ text = DisplacedText(q)
        /\ q[6] = 0 - 1 /\ q[4] = "a" /\ q[5] = 1
        /\ to_string(heap[corrected_grid]) = AlignedText(q)
        /\ heap[corrected_grid] # orig

\* The pulls the structural characters of a row compute.
Pulls(g, row, tolerance) ==
  {best_offset(row, p[2], structural_positions(g), g.height, tolerance) :
     p \in {q \in structural_positions(g) : q[1] = row}}

CorrectionsForRow(row) ==
  {k \in 1..Len(all_corrections) : all_corrections[k].line.cells[1].row = row}

\* C10: a correction is emitted for a row only if all its structural
\* characters compute one and the same non-zero pull d (and it moves the
\* row by -d); a row whose characters compute two different pulls, one of
\* them possibly 0, gets none; no row gets two corrections.
RowShiftUniformity ==
  RowShiftCalled
  => \A row \in 0..(orig.height - 1) :
        /\ Cardinality(CorrectionsForRow(row)) <= 1
        /\ Cardinality(Pulls(orig, row, cfg.tolerance)) >= 2 => CorrectionsForRow(row) = {}
        /\ \A k \in CorrectionsForRow(row) :
              /\ Pulls(orig, row, cfg.tolerance) = {0 - all_corrections[k].col_offset}
              /\ all_corrections[k].col_offset # 0
              /\ all_corrections[k].row_offset = 0

\* One row computes the pulls 0 and another and gets no correction while
\* another row of the same grid gets one.
RowShiftUniformityWitness ==
  /\ RowShiftCalled
  /\ \E row \in 0..(orig.height - 1) :
        /\ 0 \in Pulls(orig, row, cfg.tolerance)
        /\ Cardinality(Pulls(orig, row, cfg.tolerance)) >= 2
        /\ CorrectionsForRow(row) = {}
  /\ Len(all_corrections) >= 1

(***************************************************************************)
(* Properties of CorrectionEngine.correct and analyze                      *)
(***************************************************************************)
\* correct has returned.
Corrected == op = "correct" /\ pc = "done"

\* C1: the corrected grid of a second pass of correct, run on the corrected
\* grid of the first with the same configuration, is cell for cell the
\* corrected grid of the first.
Idempotence ==
  (Corrected /\ pass = 2) => heap[corrected_grid] = heap[grid]

\* The perfectly rectangular boxes with a blank interior.
AlignedBoxes ==
  {BoxText(q[1], q[2], q[3], Blank, 0, 0, 0) :
     q \in (3..MaxBoxWidth) \X (3..MaxBoxHeight) \X (0..MaxMargin)}

\* C2: on a perfectly rectangular box of width >= 3 and height >= 3 correct
\* with the default settings returns, applies no correction, and its
\* corrected grid prints as the input text.
NoOpOnAlignedBox ==
  (op = "correct" /\ cfg = DefaultConfig /\ text \in AlignedBoxes)
  => /\ pc # "raised"
     /\ all_corrections = <<>>
     /\ Corrected => /\ applied_corrections = <<>>
                     /\ to_string(heap[corrected_grid]) = text

\* correct has returned for the largest box, whose lines it detected and
\* grouped.
NoOpOnAlignedBoxWitness ==
  /\ Corrected
  /\ cfg = DefaultConfig
  /\ text = BoxText(MaxBoxWidth, MaxBoxHeight, 0, Blank, 0, 0, 0)
  /\ Len(groups_found) >= 2
  /\ to_string(heap[corrected_grid]) = text

InkAt(g, ch) == {p \in Positions(g) : get_cell(g, p[1], p[2]) = ch}

Ink(g) == {get_cell(g, p[1], p[2]) : p \in Positions(g)} \ {Blank}

\* C3: no correction the apply loop is about to apply has a translated
\* position that holds ink and is not a source of the same correction, and
\* the corrected grid holds every non-space character as many times as the
\* original grid.
CollisionFreedom ==
  /\ (op = "correct" /\ pc = "applying" /\ next_correction <= Len(all_corrections)
        /\ NonZero(all_corrections[next_correction])
        /\ Targets(all_corrections[next_correction]) \subseteq Positions(orig))
     => \A p \in Targets(all_corrections[next_correction])
                   \ Sources(all_corrections[next_correction]) :
           get_cell(heap[corrected_grid], p[1], p[2]) = Blank
  /\ Corrected
     => \A ch \in Ink(orig) \cup Ink(heap[corrected_grid]) :
           Cardinality(InkAt(heap[corrected_grid], ch)) = Cardinality(InkAt(orig, ch))

\* The rows of a tree text that hold its branches.
BranchRows(g) == {r \in 0..(g.height - 1) : \E c \in 0..(g.width - 1) : is_tree_branch(g, r, c)}

\* C4: on a grid classified TREE correct, with the default settings,
\* returns; no group of groups_found holds a horizontal line of a branch
\* row; and every character of a branch row is where it was.
TreePreservation ==
  (op = "correct" /\ pass = 1 /\ text \in TreeTexts /\ classify(orig) = "TREE")
  => /\ pc # "raised"
     /\ \A k \in 1..Len(groups_found) :
           \A i \in 1..Len(groups_found[k].lines) :
              groups_found[k].lines[i].direction = "HORIZONTAL"
                => dominant_row(groups_found[k].lines[i]) \notin BranchRows(orig)
     /\ Corrected
          => \A r \in BranchRows(orig) : heap[corrected_grid].data[r] = orig.data[r]

\* C5: correct and analyze return normally for every grid and every
\* configuration; a correction the apply loop dropped as out of bounds is
\* not among corrections_applied and every other one is.
BoundsSafety ==
  op \in {"correct", "analyze"}
  => /\ pc # "raised"
     /\ raised = "none"
     /\ Corrected => Len(applied_corrections) + Len(skipped) = Len(all_corrections)

\* The columns of a row that hold ink.
InkedColumns(g, row) == {c \in 0..(g.width - 1) : get_cell(g, row, c) # Blank}

\* C11: a row-shift correction for row r holds exactly the non-whitespace
\* cells of r, text as well as structure, has row_offset 0 and col_offset
\* minus the row's pull, and keeps every cell inside the grid; a row whose
\* characters agree on a pull that would take some non-whitespace cell out
\* of the grid gets no correction.
WholeRowMove ==
  RowShiftCalled
  => \A row \in 0..(orig.height - 1) :
        /\ \A k \in CorrectionsForRow(row) :
              /\ all_corrections[k].line.cells =
                   [i \in 1..Cardinality(InkedColumns(orig, row)) |->
                      Cell(get_cell(orig, row, IncreasingSeq(InkedColumns(orig, row))[i]),
                           row, IncreasingSeq(InkedColumns(orig, row))[i])]
              /\ all_corrections[k].row_offset = 0
              /\ (0 - all_corrections[k].col_offset) \in Pulls(orig, row, cfg.tolerance)
              /\ \A c \in InkedColumns(orig, row) :
                    c + all_corrections[k].col_offset \in 0..(orig.width - 1)
        /\ (\E d \in Pulls(orig, row, cfg.tolerance) \ {0} :
               /\ Pulls(orig, row, cfg.tolerance) = {d}
               /\ \E c \in InkedColumns(orig, row) : c - d \notin 0..(orig.width - 1))
           => CorrectionsForRow(row) = {}

\* A pipe one column off its column with a letter riding beside it: both
\* are in the correction emitted for the row.
WholeRowMoveWitness ==
  /\ RowShiftCalled
  /\ text \in PipeTexts
  /\ Len(all_corrections) = 1
  /\ \E i \in 1..Len(all_corrections[1].line.cells) :
        all_corrections[1].line.cells[i].value = "a"
  /\ \E i \in 1..Len(all_corrections[1].line.cells) :
        all_corrections[1].line.cells[i].value = "|"

\* A pipe whose pull would push the letter left of it out of the grid.
WholeRowSkipped ==
  /\ RowShiftCalled
  /\ \E row \in 0..(orig.height - 1) :
        \E d \in Pulls(orig, row, cfg.tolerance) \ {0} :
           /\ Pulls(orig, row, cfg.tolerance) = {d}
           /\ \E c \in InkedColumns(orig, row) : c - d \notin 0..(orig.width - 1)
           /\ CorrectionsForRow(row) = {}

(***************************************************************************)
(* Properties of StrayCharacterFinder.find_stray_corrections               *)
(***************************************************************************)
\* find_stray_corrections was called on the caller's grid with the lines
\* detected in it.
StrayCalled == op = "find_stray_corrections"

DetectedLines == detect_lines(orig, cfg.min_line_length)

\* The columns of pipes with one pipe off its column and nothing else on its
\* row: height, column, row, displacement.
StrayPipes ==
  {q \in (3..MaxPipeHeight) \X (0..MaxPipeCol) \X (0..(MaxPipeHeight - 1))
         \X ((0 - MaxReach)..MaxReach) :
     q[3] < q[1] /\ q[2] + q[4] >= 0 /\ q[4] # 0}

\* A detected vertical line of column c spans rows within tolerance of row r.
LineNear(c, r) ==
  \E i \in 1..Len(DetectedLines) :
     /\ DetectedLines[i].direction = "VERTICAL"
     /\ dominant_col(DetectedLines[i]) = c
     /\ line_start(DetectedLines[i]) - cfg.tolerance <= r
     /\ r <= line_end(DetectedLines[i]) + cfg.tolerance

\* The one correction that moves the pipe of row q[3] back to column q[2].
Reconciled(q) ==
  all_corrections =
    <<ShiftCorrection(Line(<<Cell("|", q[3], q[2] + q[4])>>, "VERTICAL"), 0, 0 - q[4])>>

\* C12 as stated: whatever lines were detected, the single pipe within
\* tolerance of a detected line's column gets exactly one correction.
StrayPipeReconciledAnyLines ==
  StrayCalled
  => \A q \in StrayPipes :
        (/\ Len(text) = q[1]
         /\ text = PipeText(q[1], q[2], q[3], q[4], 0 - 1)
         /\ Abs(q[4]) <= cfg.tolerance
         /\ LineNear(q[2], q[3]))
        => Reconciled(q)

\* C12: when the single pipe is not itself a cell of a detected line (lines
\* detected with min_line_length >= 2), find_stray_corrections returns
\* exactly one correction: the pipe alone, row_offset 0, col_offset the
\* column of the line minus the pipe's column.
StrayPipeReconciled ==
  (StrayCalled /\ cfg.min_line_length >= 2)
  => \A q \in StrayPipes :
        (/\ Len(text) = q[1]
         /\ text = PipeText(q[1], q[2], q[3], q[4], 0 - 1)
         /\ Abs(q[4]) <= cfg.tolerance
         /\ LineNear(q[2], q[3]))
        => Reconciled(q)

\* A pipe two columns right of a line that runs above and below its row has
\* been moved back onto the line's column.
StrayPipeReconciledWitness ==
  /\ StrayCalled
  /\ pc = "done"
  /\ cfg.tolerance = 2
  /\ \E q \in StrayPipes :
        /\ text = PipeText(q[1], q[2], q[3], q[4], 0 - 1)
        /\ q[4] = 2 /\ q[1] = 5 /\ q[3] = 2
        /\ LineNear(q[2], q[3])
        /\ Reconciled(q)
        /\ to_string(heap[corrected_grid]) = PipeText(q[1], q[2], q[3], 0, 0 - 1)

\* The positions the detected lines cover.
Covered ==
  UNION {{<<DetectedLines[i].cells[j].row, DetectedLines[i].cells[j].col>> :
            j \in 1..Len(DetectedLines[i].cells)} : i \in 1..Len(DetectedLines)}

\* A detected line of the direction runs along the row or column at.
LineAlong(direction, at) ==
  \E i \in 1..Len(DetectedLines) :
     /\ DetectedLines[i].direction = direction
     /\ at = IF direction = "VERTICAL" THEN dominant_col(DetectedLines[i])
             ELSE dominant_row(DetectedLines[i])

\* C13: every correction of find_stray_corrections moves one cell, which
\* holds a vertical or horizontal character and belongs to no detected
\* line; one of its offsets is 0 and the other between 1 and tolerance in
\* absolute value; the destination is inside the grid, on the dominant
\* column (row) of a detected vertical (horizontal) line, and holds a space
\* in the input grid.
StrayCorrectionShape ==
  StrayCalled
  => \A k \in 1..Len(all_corrections) :
        LET correction == all_corrections[k]
            cell == correction.line.cells[1]
            vertical == cell.value \in VERTICAL_CHARS
        IN /\ Len(correction.line.cells) = 1
           /\ cell.value \in VERTICAL_CHARS \cup HORIZONTAL_CHARS
           /\ cell.value = get_cell(orig, cell.row, cell.col)
           /\ <<cell.row, cell.col>> \notin Covered
           /\ IF vertical
              THEN /\ correction.row_offset = 0
                   /\ Abs(correction.col_offset) \in 1..cfg.tolerance
                   /\ LineAlong("VERTICAL", cell.col + correction.col_offset)
              ELSE /\ correction.col_offset = 0
                   /\ Abs(correction.row_offset) \in 1..cfg.tolerance
                   /\ LineAlong("HORIZONTAL", cell.row + correction.row_offset)
           /\ <<cell.row + correction.row_offset, cell.col + correction.col_offset>>
                \in Positions(orig)
           /\ get_cell(orig, cell.row + correction.row_offset,
                       cell.col + correction.col_offset) = Blank

\* A dash two rows off its row is given a correction back onto the row.
StrayCorrectionShapeWitness ==
  /\ StrayCalled
  /\ text \in DashTexts
  /\ Len(all_corrections) = 1
  /\ all_corrections[1].line.cells[1].value = "-"
  /\ Abs(all_corrections[1].row_offset) = 2

\* The corrections emitted for the cell at a position.
CorrectionsForCell(row, col) ==
  {k \in 1..Len(all_corrections) :
     /\ all_corrections[k].line.cells[1].row = row
     /\ all_corrections[k].line.cells[1].col = col}

\* C14: a vertical character outside every detected line, on a row that
\* holds something other than spaces and vertical characters, gets no
\* correction unless everything to its right on the row is a space; a
\* horizontal character outside every detected line, in a column that
\* holds something other than spaces and horizontal characters, gets none.
TextVeto ==
  StrayCalled
  => \A p \in Positions(orig) \ Covered :
        /\ (/\ get_cell(orig, p[1], p[2]) \in VERTICAL_CHARS
            /\ \E c \in 0..(orig.width - 1) :
                  get_cell(orig, p[1], c) \notin VERTICAL_CHARS \cup {Blank}
            /\ \E c \in (p[2] + 1)..(orig.width - 1) : get_cell(orig, p[1], c) # Blank)
           => CorrectionsForCell(p[1], p[2]) = {}
        /\ (/\ get_cell(orig, p[1], p[2]) \in HORIZONTAL_CHARS
            /\ \E r \in 0..(orig.height - 1) :
                  get_cell(orig, r, p[2]) \notin HORIZONTAL_CHARS \cup {Blank})
           => CorrectionsForCell(p[1], p[2]) = {}

\* A pipe one column off a nearby line, with a letter to its right on its
\* row and a free cell on the line's column, is left alone.
TextVetoWitness ==
  /\ StrayCalled
  /\ all_corrections = <<>>
  /\ \E q \in StrayPipes : \E l \in 0..(MaxPipeCol + MaxReach + 1) :
        /\ text = PipeText(q[1], q[2], q[3], q[4], l)
        /\ l > q[2] + q[4]
        /\ Abs(q[4]) <= cfg.tolerance
        /\ LineNear(q[2], q[3])
        /\ <<q[3], q[2] + q[4]>> \notin Covered

\* A pipe with a letter to its left only, moved as the right edge of its row.
RightEdgeException ==
  /\ StrayCalled
  /\ Len(all_corrections) = 1
  /\ \E q \in StrayPipes : \E l \in 0..(MaxPipeCol + MaxReach + 1) :
        /\ text = PipeText(q[1], q[2], q[3], q[4], l)
        /\ l < q[2] + q[4]

(***************************************************************************)
(* Properties of Grid                                                      *)
(***************************************************************************)
\* The string g.to_string() returns.
Serialized(g) == join(to_string(g))

\* Grid.from_string(s) for a string s.
Parsed(s) == from_string(split(s, <<>>))

\* C15: for every grid reached from from_string by set_cell and clear_cell
\* calls, Grid.from_string(g.to_string()).to_string() equals g.to_string().
RoundTrip ==
  \A ref \in DOMAIN heap :
     Serialized(Parsed(Serialized(heap[ref]))) = Serialized(heap[ref])

\* The grid has exactly height rows of exactly width single characters.
WellShaped(g) ==
  /\ DOMAIN g.data = 0..(g.height - 1)
  /\ \A r \in DOMAIN g.data :
        /\ DOMAIN g.data[r] = 0..(g.width - 1)
        /\ \A c \in DOMAIN g.data[r] : g.data[r][c] \in GridChars

\* The last call named a position outside the grid it was made on.
OutOfRange ==
  /\ call # <<>>
  /\ \/ call.row < 0 \/ call.row >= orig.height
     \/ call.col < 0 \/ call.col >= orig.width

\* C16: after construction and any sequence of get_cell, set_cell,
\* clear_cell and copy calls at arbitrary positions the grid keeps its height
\* rows of width characters and its dimensions; get_cell out of range
\* (negative included) returns None; set_cell and clear_cell out of range
\* raise IndexError and leave every cell as it was, and in range they write
\* the one cell named and nothing else.
GridShapeAndBounds ==
  /\ WellShaped(heap[grid])
  /\ op \in {"get_cell", "set_cell", "clear_cell", "copy"} =>
        /\ heap[grid].width = orig.width
        /\ heap[grid].height = orig.height
  /\ op \in {"get_cell", "copy"} => heap[grid] = orig
  /\ (op = "get_cell" /\ OutOfRange) => returned = NoCell
  /\ (op = "get_cell" /\ ~OutOfRange) => returned = orig.data[call.row][call.col]
  /\ (op \in {"set_cell", "clear_cell"} /\ OutOfRange) =>
        /\ raised = "IndexError"
        /\ heap[grid] = orig
  /\ (op \in {"set_cell", "clear_cell"} /\ ~OutOfRange) =>
        /\ raised = "none"
        /\ \A r \in 0..(orig.height - 1) : \A c \in 0..(orig.width - 1) :
              heap[grid].data[r][c] =
                 IF r = call.row /\ c = call.col THEN call.ch ELSE orig.data[r][c]

\* A set_cell with a negative row on a grid that holds a letter in its last
\* row has raised.
GridShapeAndBoundsWitness ==
  /\ op = "set_cell"
  /\ call.row < 0
  /\ call.col >= 0 /\ call.col < orig.width
  /\ call.ch = NewLine
  /\ orig.data[orig.height - 1][call.col] = "a"
  /\ raised = "IndexError"

(***************************************************************************)
(* Properties of BoxDetector.detect_boxes                                  *)
(***************************************************************************)
\* (top row, left column, height, width) of a box, read off its cells.
BoxKey(box) ==
  <<box.top_line.cells[1].row, box.left_line.cells[1].col, box.height, box.width>>

\* The corners of the grid a box can be traced from.
TracedCorners ==
  {p \in (0..(heap[grid].height - 1)) \X (0..(heap[grid].width - 1)) :
     /\ get_cell(heap[grid], p[1], p[2]) \in CORNER_CHARS
     /\ try_form_box(heap[grid], p[1], p[2]) # <<>>}

\* C17: detect_boxes returns no two boxes with the same key (top row, left
\* column, height, width), and one box for every rectangle traced, however
\* many corner characters the grid holds.
BoxDedup ==
  op = "detect_boxes" =>
     /\ \A i, j \in 1..Len(returned) :
           i # j => BoxKey(returned[i]) # BoxKey(returned[j])
     /\ \A p \in TracedCorners :
           Cardinality({i \in 1..Len(returned) :
                          BoxKey(returned[i]) =
                             BoxKey(try_form_box(heap[grid], p[1], p[2])[1])}) = 1

\* A grid of nine corner characters: four rectangles, each returned once.
BoxDedupWitness ==
  /\ op = "detect_boxes"
  /\ \A p \in (0..2) \X (0..2) : get_cell(heap[grid], p[1], p[2]) = "+"
  /\ Len(returned) = 4

(***************************************************************************)
(* Properties of MarkdownCorrector.correct                                 *)
(***************************************************************************)
\* The runs of lines of the document that lie outside the blocks classified
\* as diagrams: from line `from` up to the opening fence of the k-th diagram
\* block, then from its closing fence on.
RECURSIVE OutsideRuns(_, _, _, _, _)
OutsideRuns(lines, code_blocks, indices, k, from) ==
  IF k > Len(indices) THEN <<SubSeq(lines, from, Len(lines))>>
  ELSE <<SubSeq(lines, from, code_blocks[indices[k] + 1].start_line + 1)>>
       \o OutsideRuns(lines, code_blocks, indices, k + 1,
                      code_blocks[indices[k] + 1].end_line + 1)

\* The lines are the runs in their order with any lines at all between one
\* run and the next.
RECURSIVE FollowedBy(_, _)
FollowedBy(lines, runs) ==
  IF Len(runs) = 0 THEN Len(lines) = 0
  ELSE \E k \in 0..Len(lines) :
          /\ k + Len(runs[1]) <= Len(lines)
          /\ SubSeq(lines, k + 1, k + Len(runs[1])) = runs[1]
          /\ FollowedBy(SubSeq(lines, k + Len(runs[1]) + 1, Len(lines)), Tail(runs))

Spliced(lines, runs) ==
  /\ Len(lines) >= Len(runs[1])
  /\ SubSeq(lines, 1, Len(runs[1])) = runs[1]
  /\ FollowedBy(SubSeq(lines, Len(runs[1]) + 1, Len(lines)), Tail(runs))

\* C18: the text MarkdownCorrector.correct returns differs from the document
\* only in the lines strictly between the fences of the blocks classified as
\* diagrams: prose, fences with their labels and the blocks that are no
\* diagrams are all there, unchanged and in their order.
SplicePreservesOutside ==
  (op = "markdown_correct" /\ raised = "none")
  => Spliced(split(returned.corrected_text, <<>>),
             OutsideRuns(text, parse(join(text)),
                         diagram_indices(parse(join(text))), 1, 1))

(***************************************************************************)
(* Properties of the pipeline of correct and analyze                       *)
(***************************************************************************)
\* The four correction lists, each computed from the grid g alone.
AlignmentStage(g, c) ==
  LET groups == find_parallel_groups(detect_lines(g, c.min_line_length), c.tolerance,
                                     c.min_overlap_ratio)
  IN FlattenSeq([k \in 1..Len(groups) |-> calculate_alignment(groups[k])])

BoxStage(g) == calculate_corrections(detect_boxes(g))

StrayStage(g, c) ==
  find_stray_corrections(g, detect_lines(g, c.min_line_length), c.tolerance)

RowShiftStage(g, c) == find_row_shift_corrections(g, c.tolerance)

\* correct or analyze got past line detection and raised nothing.
PipelineRan ==
  /\ op \in {"correct", "analyze"}
  /\ pc \in {"applying", "done"}
  /\ Len(detect_lines(orig, cfg.min_line_length)) > 0

\* C19: the list of analyze and of correct is the alignment corrections, then
\* the box-edge corrections, then the stray-character corrections, then the
\* row-shift corrections, all computed from the input grid, which stays as it
\* was; correct applies the list front to back to one working copy, each
\* application starting from the grid the previous one left.
PipelineOrder ==
  PipelineRan =>
     /\ all_corrections = AlignmentStage(orig, cfg) \o BoxStage(orig)
                          \o StrayStage(orig, cfg) \o RowShiftStage(orig, cfg)
     /\ heap[grid] = orig
     /\ op = "correct" =>
           LET done == ApplyLoop(<<orig>>, 1,
                                 SubSeq(all_corrections, 1, next_correction - 1), 1, 0)
           IN /\ heap[corrected_grid] = done.grid
              /\ Len(applied_corrections) = done.count
              /\ Len(applied_corrections) + Len(skipped) = next_correction - 1
     /\ op = "analyze" => heap[corrected_grid] = orig

\* correct has returned after applying both a stray-character correction and
\* a row-shift correction, the second to the grid the first left.
PipelineOrderWitness ==
  /\ PipelineRan
  /\ op = "correct" /\ pc = "done"
  /\ Len(StrayStage(orig, cfg)) > 0
  /\ Len(RowShiftStage(orig, cfg)) > 0
  /\ Len(applied_corrections) >= 2

\* No line is detected in the grid the call was made on.
NoLines == Len(detect_lines(orig, cfg.min_line_length)) = 0

\* C20: when detect_lines finds no line in the grid, correct and analyze
\* return (they raise nothing) with no correction, no group and a corrected
\* grid equal cell for cell to the input, whatever the later stages would
\* have found: no stage after line detection contributes.
ShortCircuit ==
  (op \in {"correct", "analyze"} /\ NoLines)
  => /\ pc = "done"
     /\ raised = "none"
     /\ all_corrections = <<>>
     /\ applied_corrections = <<>>
     /\ groups_found = <<>>
     /\ corrected_grid # grid
     /\ heap[corrected_grid] = orig
     /\ heap[grid] = orig

\* correct has returned on a grid without lines for which the row-shift
\* stage alone finds a correction.
ShortCircuitWitness ==
  /\ op = "correct" /\ pc = "done"
  /\ NoLines
  /\ Len(RowShiftStage(orig, cfg)) > 0
  /\ Ink(orig) # {}

(***************************************************************************)
(* Properties of RowShiftCorrector._best_offset                            *)
(***************************************************************************)
\* The columns within tolerance of col that hold strictly more structural
\* characters than col, at least MinConsensus of them, and one of them on the
\* row above or below.
Qualifying(positions, row, col, tolerance) ==
  {c \in (col - tolerance)..(col + tolerance) :
     /\ c # col
     /\ col_count(positions, c) > col_count(positions, col)
     /\ col_count(positions, c) >= MinConsensus
     /\ (<<row - 1, c>> \in positions \/ <<row + 1, c>> \in positions)}

\* Those of the columns Q with the highest count.
Highest(positions, Q) ==
  {c \in Q : \A o \in Q : col_count(positions, o) <= col_count(positions, c)}

\* Those of the columns Q nearest to col.
Nearest(col, Q) == {c \in Q : \A o \in Q : Abs(col - c) <= Abs(col - o)}

\* The pull of the character at (row, col): highest count, then nearest,
\* then leftmost; 0 when no column qualifies.
Pull(positions, row, col, tolerance) ==
  LET top == Nearest(col, Highest(positions, Qualifying(positions, row, col, tolerance)))
  IN IF top = {} THEN 0 ELSE col - (CHOOSE c \in top : \A o \in top : c <= o)

\* C21: for a structural character at (row, col), _best_offset returns
\* col - c where c is, among the columns at distance 1..tolerance that have a
\* strictly higher count than col's, a count of at least min_consensus and a
\* structural character on the row above or below, the one with the highest
\* count, ties going to the lowest distance and then to the left; it returns
\* 0 when no column qualifies, and no column farther than tolerance counts.
BestOffsetSelection ==
  op = "best_offset"
  => returned = Pull(structural_positions(heap[grid]), call[1], call[2], cfg.tolerance)

\* _best_offset chose the left of two qualifying columns of equal count at
\* equal distance, two columns away.
BestOffsetSelectionWitness ==
  /\ op = "best_offset"
  /\ returned = 2
  /\ LET positions == structural_positions(heap[grid])
         Q == Qualifying(positions, call[1], call[2], cfg.tolerance)
     IN Cardinality(Nearest(call[2], Highest(positions, Q))) = 2

(***************************************************************************)
(* Properties of the histogram of find_row_shift_corrections               *)
(***************************************************************************)
\* The cells of g holding a character of vertical, corner or junction class.
StructuralCells(g) ==
  {p \in Positions(g) : get_cell(g, p[1], p[2]) \in STRUCTURAL_CHARS}

\* C22: the structural-position set and the column histogram built by
\* find_row_shift_corrections count every cell whose character is of
\* vertical, corner or junction class, junction characters such as "*"
\* included.
HistogramCoverage ==
  op = "find_row_shift_corrections"
  => /\ structural_positions(orig) = StructuralCells(orig)
     /\ \A col \in 0..(orig.width - 1) :
           col_count(structural_positions(orig), col)
             = Cardinality({p \in StructuralCells(orig) : p[2] = col})

(***************************************************************************)
(* Properties of LineDetector.detect_lines                                 *)
(***************************************************************************)
\* The coordinate along which the cells of a line of this direction vary,
\* and the one they share.
Along(direction) == IF direction = "HORIZONTAL" THEN "col" ELSE "row"

Across(direction) == IF direction = "HORIZONTAL" THEN "row" ELSE "col"

LineChars(direction) ==
  IF direction = "HORIZONTAL" THEN HORIZONTAL_CHARS ELSE VERTICAL_CHARS

\* The character of g at distance at along the lane of the line's first cell.
LaneCell(g, line, at) ==
  IF line.direction = "HORIZONTAL" THEN get_cell(g, line.cells[1].row, at)
  ELSE get_cell(g, at, line.cells[1].col)

\* The line is a bridged run of grid g: one lane, increasing order, cells of
\* the line's class as the grid holds them, bridge characters in every gap.
BridgedRun(g, line) ==
  LET cells == line.cells
      along == Along(line.direction)
      across == Across(line.direction)
  IN /\ line.direction \in {"HORIZONTAL", "VERTICAL"}
     /\ Len(cells) >= 1
     /\ \A j \in 1..Len(cells) :
          /\ cells[j][across] = cells[1][across]
          /\ cells[j].value \in LineChars(line.direction)
          /\ cells[j].value \notin BRIDGE_CHARS \cup CORNER_CHARS
          /\ get_cell(g, cells[j].row, cells[j].col) = cells[j].value
     /\ \A j \in 1..(Len(cells) - 1) :
          /\ cells[j][along] < cells[j + 1][along]
          /\ \A at \in (cells[j][along] + 1)..(cells[j + 1][along] - 1) :
                LaneCell(g, line, at) \in BRIDGE_CHARS

\* C23: every line detect_lines returns has at least min_length cells, all
\* in one row (column) in strictly increasing column (row) order, each
\* holding a horizontal-class (vertical-class) character and none a bridge
\* or corner character; every grid cell between two consecutive cells of a
\* line holds a bridge character, so neither a run of bridges alone nor a
\* bridge followed by a non-matching character makes or extends a line.
LineBridging ==
  op = "detect_lines"
  => \A k \in 1..Len(returned) :
        /\ Len(returned[k].cells) >= cfg.min_line_length
        /\ BridgedRun(orig, returned[k])

\* detect_lines returned a line that bridges a gap and stops before a bridge
\* character that no matching character follows.
LineBridgingWitness ==
  /\ op = "detect_lines"
  /\ \E k \in 1..Len(returned) :
        LET line == returned[k]
            along == Along(line.direction)
            last == line.cells[Len(line.cells)][along]
        IN /\ \E j \in 1..(Len(line.cells) - 1) :
                 line.cells[j + 1][along] > line.cells[j][along] + 1
           /\ LaneCell(orig, line, last + 1) \in BRIDGE_CHARS
           /\ LaneCell(orig, line, last + 2) = Blank

(***************************************************************************)
(* Properties of ParallelLineFinder.find_parallel_groups                   *)
(***************************************************************************)
\* The dominant coordinate of a line with cells, and the span of the line
\* along its own axis.
Coordinate(line) == line.cells[1][Across(line.direction)]

Span(line) ==
  LET S == {line.cells[j][Along(line.direction)] : j \in 1..Len(line.cells)}
  IN {x \in 0..(GroupShape.rows + GroupShape.cols) :
        (\E lo \in S : lo <= x) /\ (\E hi \in S : x <= hi)}

\* The joining rule: coordinates within tolerance of each other, and the
\* spans sharing at least min_overlap_ratio of the shorter span.
Joins(a, b) ==
  /\ Abs(Coordinate(a) - Coordinate(b)) <= cfg.tolerance
  /\ Cardinality(Span(a) \cap Span(b)) * cfg.min_overlap_ratio.den
       >= cfg.min_overlap_ratio.num * Min2(Cardinality(Span(a)), Cardinality(Span(b)))

HasCells(line) == Len(line.cells) > 0

\* s holds the lines of l in a stable order of dominant coordinate.
StablySorted(s, l) ==
  /\ \A j \in 1..(Len(s) - 1) : Coordinate(s[j]) <= Coordinate(s[j + 1])
  /\ \A v \in 0..(GroupShape.rows + GroupShape.cols) :
        SelectSeq(s, LAMBDA ln : HasCells(ln) /\ Coordinate(ln) = v)
          = SelectSeq(l, LAMBDA ln : HasCells(ln) /\ Coordinate(ln) = v)
  /\ SelectSeq(s, LAMBDA ln : ~HasCells(ln)) = SelectSeq(l, LAMBDA ln : ~HasCells(ln))

\* The groups found in one direction, and their lines one group after the
\* other.
GroupsOf(direction) == SelectSeq(groups_found, LAMBDA G : G.direction = direction)

GroupedLines(direction) ==
  FlattenSeq([k \in 1..Len(GroupsOf(direction)) |-> GroupsOf(direction)[k].lines])

\* The groups found are the greedy grouping of the given lines.
GroupedGreedily(lines) ==
  /\ \A k \in 1..Len(groups_found) :
        /\ Len(groups_found[k].lines) > 0
        /\ groups_found[k].direction \in {"HORIZONTAL", "VERTICAL"}
        /\ \A j \in 1..Len(groups_found[k].lines) :
              groups_found[k].lines[j].direction = groups_found[k].direction
  /\ \A direction \in {"HORIZONTAL", "VERTICAL"} :
        LET gs == GroupsOf(direction)
        IN /\ StablySorted(GroupedLines(direction),
                           SelectSeq(lines, LAMBDA ln : ln.direction = direction))
           /\ \A k \in 1..Len(gs) :
                 \A j \in 2..Len(gs[k].lines) : Joins(gs[k].lines[j - 1], gs[k].lines[j])
           /\ \A k \in 1..(Len(gs) - 1) :
                 ~Joins(gs[k].lines[Len(gs[k].lines)], gs[k + 1].lines[1])
  /\ Len(lines) = 1
     => Len(groups_found) = 1 /\ Len(groups_found[1].lines) = 1

\* C24 as stated: within one direction, with the lines stably sorted by
\* dominant coordinate, a line joins the group of the line before it if and
\* only if the two are within tolerance and overlap enough, else it starts a
\* new group; directions never share a group, every horizontal or vertical
\* input line is in exactly one group, a single line yields one group.
GreedyGrouping ==
  op = "find_parallel_groups" => GroupedGreedily(call)

\* C24, of the input lines that have a cell: those are grouped greedily as
\* stated, each in exactly one group; a line without cells has no dominant
\* coordinate and is in no group.
GreedyGroupingOfLinesWithCells ==
  op = "find_parallel_groups"
  => /\ GroupedGreedily(SelectSeq(call, HasCells))
     /\ \A k \in 1..Len(groups_found) :
           \A j \in 1..Len(groups_found[k].lines) : HasCells(groups_found[k].lines[j])

\* A call with a line without cells and two lines of different coordinates
\* that joined one group.
GreedyGroupingWitness ==
  /\ op = "find_parallel_groups"
  /\ \E i \in 1..Len(call) : ~HasCells(call[i])
  /\ \E k \in 1..Len(groups_found) :
        /\ Len(groups_found[k].lines) = 2
        /\ Coordinate(groups_found[k].lines[1]) # Coordinate(groups_found[k].lines[2])

\* Group k holds the line.
InGroup(k, line) ==
  \E j \in 1..Len(groups_found[k].lines) : groups_found[k].lines[j] = line

\* C25: any two same-direction lines passed to find_parallel_groups whose
\* dominant coordinates differ by at most tolerance and whose overlap ratio
\* is at least min_overlap_ratio end up in the same group, whatever other
\* lines are present and whatever the order of the input list.
GroupingComplete ==
  op = "find_parallel_groups"
  => \A i, j \in 1..Len(call) :
        (/\ HasCells(call[i]) /\ HasCells(call[j])
         /\ call[i].direction = call[j].direction
         /\ Joins(call[i], call[j]))
        => \E k \in 1..Len(groups_found) : InGroup(k, call[i]) /\ InGroup(k, call[j])

(***************************************************************************)
(* Properties of AlignmentCalculator.calculate_alignment                   *)
(***************************************************************************)
\* The reference of the group is its longest line, the first on ties, and
\* the expected position the dominant coordinate of that line.
ReferenceIsLongest(group) ==
  \E r \in 1..Len(group.lines) :
     /\ group.reference_line = group.lines[r]
     /\ \A j \in 1..Len(group.lines) :
           /\ Len(group.lines[j].cells) <= Len(group.lines[r].cells)
           /\ j < r => Len(group.lines[j].cells) < Len(group.lines[r].cells)
     /\ group.expected_position = Coordinate(group.lines[r])

\* The correction that takes the line to the expected position.
Aligning(line, expected_position) ==
  [line |-> line,
   row_offset |-> IF line.direction = "HORIZONTAL"
                  THEN expected_position - Coordinate(line) ELSE 0,
   col_offset |-> IF line.direction = "VERTICAL"
                  THEN expected_position - Coordinate(line) ELSE 0,
   confidence |-> [num |-> 1, den |-> 1]]

\* One correction per line of the group off the expected position, in the
\* order of the lines.
Alignments(group) ==
  LET off == SelectSeq(group.lines,
                       LAMBDA ln : Coordinate(ln) # group.expected_position)
  IN [k \in 1..Len(off) |-> Aligning(off[k], group.expected_position)]

\* C26: for a group whose reference is its longest line (the first on ties)
\* and whose expected position is the reference's dominant coordinate,
\* calculate_alignment returns exactly one correction per line whose
\* dominant coordinate differs from the expected position and none for the
\* others, with offset expected minus coordinate on the matching axis, 0 on
\* the other and confidence 1.0; the reference gets none, and an empty or
\* single-line group yields none.
AlignmentCalculation ==
  /\ (op = "calculate_alignment" /\ Len(call.lines) = 0) => returned = <<>>
  /\ (op = "calculate_alignment" /\ Len(call.lines) > 0 /\ ReferenceIsLongest(call))
     => /\ returned = Alignments(call)
        /\ \A k \in 1..Len(returned) : returned[k].line # call.reference_line
        /\ Len(call.lines) = 1 => returned = <<>>
  /\ op = "find_parallel_groups"
     => \A k \in 1..Len(groups_found) :
           /\ ReferenceIsLongest(groups_found[k])
           /\ returned[k] = Alignments(groups_found[k])

\* calculate_alignment returned two corrections for a group of three lines
\* whose reference is not its first line.
AlignmentCalculationWitness ==
  /\ op = "calculate_alignment"
  /\ Len(call.lines) = 3
  /\ ReferenceIsLongest(call)
  /\ call.reference_line # call.lines[1]
  /\ Len(returned) = 2
  /\ returned[1].row_offset # returned[2].row_offset

(***************************************************************************)
(* Properties of the engine under its tolerance                            *)
(***************************************************************************)
\* C27: every correction analyze returns, whichever stage made it, has
\* |row_offset| <= tolerance and |col_offset| <= tolerance: nothing is moved
\* farther than the configured search radius.
ToleranceBound ==
  (op = "analyze" /\ pc = "done")
  => \A k \in 1..Len(applied_corrections) :
        /\ Abs(applied_corrections[k].row_offset) <= cfg.tolerance
        /\ Abs(applied_corrections[k].col_offset) <= cfg.tolerance

\* C28: with tolerance 0 correct returns, for every grid, zero corrections
\* and a corrected grid equal cell for cell to the input: no stage produces
\* a correction.
ToleranceZeroIdentity ==
  (op = "correct" /\ cfg.tolerance = 0)
  => /\ raised = "none"
     /\ pc # "raised"
     /\ all_corrections = <<>>
     /\ applied_corrections = <<>>
     /\ heap[corrected_grid] = orig

(***************************************************************************)
(* Properties relating correct and analyze                                 *)
(***************************************************************************)
\* What analyze gives for the grid the call was made on.
Analysis == run_pipeline(orig, cfg, Settings)

\* C29: correct applies the same corrections in the same order as analyze
\* reports for the same grid and configuration, with the same groups found
\* (and raises when analyze raises): no correction of any stage has a
\* translated cell outside the grid, so the out-of-bounds skip of correct is
\* never taken.
AnalyzeCorrectAgree ==
  /\ op = "correct" => skipped = <<>>
  /\ (op = "correct" /\ pc = "raised") => Analysis.raised = raised
  /\ (op = "correct" /\ pc = "applying")
     => applied_corrections = SubSeq(Analysis.corrections, 1, next_correction - 1)
  /\ (op = "correct" /\ pc = "done")
     => /\ Analysis.raised = "none"
        /\ applied_corrections = Analysis.corrections
        /\ groups_found = Analysis.groups

\* correct has returned after applying two corrections or more, one of which
\* moved a cell into the first row or the first column of the grid.
AnalyzeCorrectAgreeWitness ==
  /\ op = "correct" /\ pc = "done"
  /\ Len(applied_corrections) >= 2
  /\ \E k \in 1..Len(applied_corrections) :
        \E p \in Targets(applied_corrections[k]) : p[1] = 0 \/ p[2] = 0


(***************************************************************************)
(* Properties of the box stage                                             *)
(***************************************************************************)
\* The corner a detected box was traced from.
TopLeft(box) == <<box.top_line.cells[1].row, box.left_line.cells[1].col>>

\* The edges of a box as _try_form_box leaves them: the corners found by the
\* two traces are corner characters of the grid at distance width - 1 and
\* height - 1 from the top-left corner, the right edge starts at the
\* top-right corner and stays in its column, the bottom edge starts at the
\* bottom-left corner and stays in its row.
EdgesAtCorners(g, box) ==
  LET top == TopLeft(box)[1]
      left == TopLeft(box)[2]
      right == left + box.width - 1
      bottom == top + box.height - 1
  IN /\ get_cell(g, top, left) \in CORNER_CHARS
     /\ get_cell(g, top, right) \in CORNER_CHARS
     /\ get_cell(g, bottom, left) \in CORNER_CHARS
     /\ get_cell(g, bottom, right) \in CORNER_CHARS
     /\ right = trace_horizontal(g, top, left + 1)
     /\ bottom = trace_vertical(g, top + 1, left)
     /\ box.right_line.cells[1].row = top
     /\ \A k \in 1..Len(box.right_line.cells) : box.right_line.cells[k].col = right
     /\ box.bottom_line.cells[1].col = left
     /\ \A k \in 1..Len(box.bottom_line.cells) : box.bottom_line.cells[k].row = bottom
     /\ dominant_col(box.right_line) = dominant_col(box.left_line) + box.width - 1
     /\ dominant_row(box.bottom_line) = dominant_row(box.top_line) + box.height - 1

====
